---- MODULE Spec2Model ----
(***************************************************************************)
(* Exercise attempt lifecycle (ProgressService / Progress), the scoring    *)
(* function (Exercise.calculate_score) and the aggregations over the       *)
(* progress table (AnalyticsService, DashboardService,                     *)
(* ClassManagementService) of the education backend.                       *)
(*                                                                         *)
(* Spec      concurrent start / submit calls                               *)
(* SpecSeq   one client: calls, max_score edits, cached student analytics  *)
(* SpecScore calculate_score on bounded exercises and answer lists         *)
(* SpecAgg   the aggregations on bounded progress tables                   *)
(* SpecRace  concurrent calls on a row that was already submitted          *)
(* SpecEx    exercise create / update and the submission endpoint          *)
(* SpecEnroll class enrolment, unenrolment and enrolment by class code     *)
(*                                                                         *)
(* Numbers that travel through JSON are decimal literals with two          *)
(* fractional digits and are held as an integer count of hundredths.       *)
(* Python turns them into IEEE-754 binary64 values with float(); that      *)
(* conversion, the subtraction and the comparison of calculate_score are   *)
(* computed bit-exactly below (round to nearest, ties to even) on          *)
(* little-endian bit sequences, because TLC integers are 32 bits wide.     *)
(***************************************************************************)
EXTENDS Integers, Sequences, FiniteSets, TLC

\* ------------------------------------------------------------------------
\* Option values: Python None / SQL NULL is <<>>, a value x is <<x>>.
\* ------------------------------------------------------------------------
None == <<>>

Some(x) == <<x>>

IsNone(o) == o = <<>>

Val(o) == o[1]

\* ------------------------------------------------------------------------
\* Natural numbers of arbitrary size as little-endian bit sequences.
\* ------------------------------------------------------------------------
\* (the operators avoid deep recursion: carries and borrows are computed
\* by look-ahead, division proceeds ChunkBits bits at a time)
SetMax(S) == CHOOSE m \in S : \A n \in S : n <= m

BBit(b, i) == IF i >= 1 /\ i <= Len(b) THEN b[i] ELSE 0

BTrim(b) ==
    LET ones == {i \in 1..Len(b) : b[i] = 1}
    IN  IF ones = {} THEN <<>> ELSE SubSeq(b, 1, SetMax(ones))

BNat(n) == BTrim([i \in 1..31 |-> (n \div (2 ^ (i - 1))) % 2])

Zeros(k) == [i \in 1..k |-> 0]

BShl(b, k) == IF b = <<>> THEN <<>> ELSE Zeros(k) \o b

\* comparison: -1, 0, 1
BCmp(x, y) ==
    LET n    == IF Len(x) > Len(y) THEN Len(x) ELSE Len(y)
        diff == {i \in 1..n : BBit(x, i) # BBit(y, i)}
    IN  IF diff = {} THEN 0
        ELSE IF BBit(x, SetMax(diff)) = 1 THEN 1 ELSE -1

\* carry into bit i of a + b
BCarry(a, b, i) ==
    IF \E j \in 1..(i - 1) :
            /\ BBit(a, j) = 1 /\ BBit(b, j) = 1
            /\ \A k \in (j + 1)..(i - 1) : BBit(a, k) + BBit(b, k) = 1
    THEN 1 ELSE 0

BAdd(a, b) ==
    LET n == (IF Len(a) > Len(b) THEN Len(a) ELSE Len(b)) + 1
    IN  BTrim([i \in 1..n |-> (BBit(a, i) + BBit(b, i) + BCarry(a, b, i)) % 2])

\* borrow out of the bits below bit i of a - b
BBorrow(a, b, i) ==
    IF \E j \in 1..(i - 1) :
            /\ BBit(a, j) = 0 /\ BBit(b, j) = 1
            /\ \A k \in (j + 1)..(i - 1) : BBit(a, k) = BBit(b, k)
    THEN 1 ELSE 0

\* a - b for a >= b
BSub(a, b) ==
    BTrim([i \in 1..Len(a) |-> (BBit(a, i) - BBit(b, i) - BBorrow(a, b, i) + 2) % 2])

ChunkBits == 16

\* value of bits lo..lo+ChunkBits-1 of b
BChunk(b, lo) ==
    LET w[i \in 0..ChunkBits] ==
            IF i = 0 THEN 0 ELSE w[i - 1] * 2 + BBit(b, lo + ChunkBits - i)
    IN  w[ChunkBits]

\* long division of b by the small divisor d, one chunk at a time from the
\* top: [q |-> quotient bits, r |-> remainder]
RECURSIVE BDivFrom(_, _, _, _)
BDivFrom(b, d, c, rem) ==
    IF c = 0 THEN [q |-> <<>>, r |-> rem]
    ELSE LET cur  == rem * (2 ^ ChunkBits) + BChunk(b, (c - 1) * ChunkBits + 1)
             qc   == cur \div d
             rest == BDivFrom(b, d, c - 1, cur % d)
         IN  [q |-> rest.q \o [i \in 1..ChunkBits |-> (qc \div (2 ^ (i - 1))) % 2],
              r |-> rest.r]

BDivSmall(b, d) ==
    LET res == BDivFrom(b, d, (Len(b) + ChunkBits - 1) \div ChunkBits, 0)
    IN  [q |-> BTrim(res.q), r |-> res.r]

\* ------------------------------------------------------------------------
\* IEEE-754 binary64 values in the normal range: value = (-1)^neg * m * 2^e
\* with m a 53-bit significand (top bit set), or m = <<>> for zero.
\* ------------------------------------------------------------------------
MantBits == 53

FZero == [neg |-> FALSE, m |-> <<>>, e |-> 0]

\* round b * 2^e (plus a nonzero fraction below the last bit when sticky)
\* to the nearest binary64 value, ties to even
FRound(neg, bits, sticky, e) ==
    LET b == BTrim(bits)
        L == Len(b)
    IN  IF L = 0 THEN FZero
        ELSE IF L <= MantBits
        THEN [neg |-> neg, m |-> BShl(b, MantBits - L), e |-> e - (MantBits - L)]
        ELSE LET drop   == L - MantBits
                 kept   == SubSeq(b, drop + 1, L)
                 guard  == b[drop]
                 low    == sticky \/ (\E i \in 1..(drop - 1) : b[i] = 1)
                 up     == guard = 1 /\ (low \/ kept[1] = 1)
                 m1     == IF up THEN BAdd(kept, <<1>>) ELSE kept
             IN  IF Len(m1) > MantBits
                 THEN [neg |-> neg, m |-> Tail(m1), e |-> e + drop + 1]
                 ELSE [neg |-> neg, m |-> m1, e |-> e + drop]

Abs(n) == IF n < 0 THEN -n ELSE n

\* extra binary digits taken before dividing by 100
DivShift == 64

\* float() of the decimal literal n / 100
FloatOfHundredths(n) ==
    IF n = 0 THEN FZero
    ELSE LET d == BDivSmall(BShl(BNat(Abs(n)), DivShift), 100)
         IN  FRound(n < 0, d.q, d.r # 0, -DivShift)

Min(a, b) == IF a <= b THEN a ELSE b

\* x + y, correctly rounded
FAdd(x, y) ==
    IF x.m = <<>> THEN y
    ELSE IF y.m = <<>> THEN x
    ELSE LET emin == Min(x.e, y.e)
             a    == BShl(x.m, x.e - emin)
             b    == BShl(y.m, y.e - emin)
             c    == BCmp(a, b)
         IN  IF x.neg = y.neg THEN FRound(x.neg, BAdd(a, b), FALSE, emin)
             ELSE IF c = 0 THEN FZero
             ELSE IF c > 0 THEN FRound(x.neg, BSub(a, b), FALSE, emin)
             ELSE FRound(y.neg, BSub(b, a), FALSE, emin)

FNeg(x) == IF x.m = <<>> THEN x ELSE [x EXCEPT !.neg = ~x.neg]

FSub(x, y) == FAdd(x, FNeg(y))

FAbs(x) == [x EXCEPT !.neg = FALSE]

\* x <= y
FLe(x, y) ==
    IF x.m = <<>> THEN (y.m = <<>> \/ ~y.neg)
    ELSE IF y.m = <<>> THEN x.neg
    ELSE IF x.neg /\ ~y.neg THEN TRUE
    ELSE IF ~x.neg /\ y.neg THEN FALSE
    ELSE LET emin == Min(x.e, y.e)
             c    == BCmp(BShl(x.m, x.e - emin), BShl(y.m, y.e - emin))
         IN  IF x.neg THEN c >= 0 ELSE c <= 0

\* ------------------------------------------------------------------------
\* JSON values held in the JSONB columns and in request bodies.  A value is
\* a number (n hundredths), a string (sequence of characters), null, or
\* "missing" for a key that the object does not carry.
\* ------------------------------------------------------------------------
JNum(n) == [k |-> "num", n |-> n, s |-> <<>>]

JStr(s) == [k |-> "str", n |-> 0, s |-> s]

JNull == [k |-> "null", n |-> 0, s |-> <<>>]

JMissing == [k |-> "missing", n |-> 0, s |-> <<>>]

\* a submitted answer object and a solution object
AnswerObj(sel, ans) == [selected_option |-> sel, answer |-> ans]

SolutionObj(opt, ans, tol) == [correct_option |-> opt, answer |-> ans, tolerance |-> tol]

\* dict.get(key): a missing key reads as None
DictGet(v) == IF v.k = "missing" THEN JNull ELSE v

\* dict.get(key, default)
DictGetDefault(v, default) == IF v.k = "missing" THEN default ELSE v

\* Python == on two JSON values
PyEq(a, b) ==
    IF a.k = "null" \/ b.k = "null" THEN a.k = b.k
    ELSE IF a.k = "num" /\ b.k = "num" THEN a.n = b.n
    ELSE IF a.k = "str" /\ b.k = "str" THEN a.s = b.s
    ELSE FALSE

Whitespace == {" "}

\* str.strip()
Strip(s) ==
    LET keep == {i \in 1..Len(s) : s[i] \notin Whitespace}
    IN  IF keep = {} THEN <<>>
        ELSE SubSeq(s, CHOOSE i \in keep : \A j \in keep : i <= j, SetMax(keep))

LowerOf(c) ==
    CASE c = "A" -> "a"
      [] c = "B" -> "b"
      [] c = "N" -> "n"
      [] OTHER -> c

\* str.lower()
Lower(s) == [i \in 1..Len(s) |-> LowerOf(s[i])]

DigitChars == <<"0", "1", "2", "3", "4", "5", "6", "7", "8", "9">>

IsDigit(c) == \E d \in 1..10 : DigitChars[d] = c

DigitVal(c) == (CHOOSE d \in 1..10 : DigitChars[d] = c) - 1

\* decimal digits of a natural number
RECURSIVE NatStr(_)
NatStr(n) ==
    IF n < 10 THEN <<DigitChars[n + 1]>>
    ELSE NatStr(n \div 10) \o <<DigitChars[(n % 10) + 1]>>

\* value of a sequence of digits
RECURSIVE DigitsVal(_)
DigitsVal(s) ==
    IF s = <<>> THEN 0
    ELSE DigitsVal(SubSeq(s, 1, Len(s) - 1)) * 10 + DigitVal(s[Len(s)])

\* str() of a JSON value: an integral number prints as an int literal, any
\* other number with its shortest decimal digits, None prints as "None"
PyStr(v) ==
    IF v.k = "str" THEN v.s
    ELSE IF v.k = "null" THEN <<"N", "o", "n", "e">>
    ELSE LET a    == Abs(v.n)
             sign == IF v.n < 0 THEN <<"-">> ELSE <<>>
             frac == a % 100
         IN  IF frac = 0 THEN sign \o NatStr(a \div 100)
             ELSE IF frac % 10 = 0
             THEN sign \o NatStr(a \div 100) \o <<".">> \o NatStr(frac \div 10)
             ELSE sign \o NatStr(a \div 100) \o <<".">>
                       \o <<DigitChars[(frac \div 10) + 1], DigitChars[(frac % 10) + 1]>>

\* float() of a JSON value: Some(binary64) or None when float() raises
\* ValueError / TypeError.  Strings are accepted when, stripped, they are a
\* non-empty run of decimal digits.
PyFloat(v) ==
    IF v.k = "num" THEN Some(FloatOfHundredths(v.n))
    ELSE IF v.k = "str"
    THEN LET t == Strip(v.s)
         IN  IF t # <<>> /\ (\A i \in 1..Len(t) : IsDigit(t[i]))
             THEN Some(FloatOfHundredths(DigitsVal(t) * 100))
             ELSE None
    ELSE None

\* ------------------------------------------------------------------------
\* Scores are exact rationals num / den in lowest terms.
\* ------------------------------------------------------------------------
RECURSIVE GCD(_, _)
GCD(a, b) == IF b = 0 THEN a ELSE GCD(b, a % b)

Rat(n, d) ==
    LET g == GCD(n, d)
    IN  IF n = 0 THEN [num |-> 0, den |-> 1] ELSE [num |-> n \div g, den |-> d \div g]

RatInt(n) == [num |-> n, den |-> 1]

RatAdd(a, b) == Rat(a.num * b.den + b.num * a.den, a.den * b.den)

\* default tolerance of a calculation solution, in hundredths (0.01)
DefaultTolerance == 1

\* the test applied to question i inside the loop of calculate_score
AnswerCorrect(type, student_answer, solution) ==
    IF type = "multiple_choice"
    THEN PyEq(DictGet(student_answer.selected_option), DictGet(solution.correct_option))
    ELSE IF type = "calculation"
    THEN LET student_val == PyFloat(DictGetDefault(student_answer.answer, JNum(0)))
             correct_val == PyFloat(DictGetDefault(solution.answer, JNum(0)))
             tolerance   == DictGetDefault(solution.tolerance, JNum(DefaultTolerance))
         IN  /\ ~IsNone(student_val)
             /\ ~IsNone(correct_val)
             /\ tolerance.k = "num"
             /\ FLe(FAbs(FSub(Val(student_val), Val(correct_val))),
                    FloatOfHundredths(tolerance.n))
    ELSE IF type = "short_answer"
    THEN Lower(Strip(PyStr(DictGetDefault(student_answer.answer, JStr(<<>>)))))
            = Lower(Strip(PyStr(DictGetDefault(solution.answer, JStr(<<>>)))))
    ELSE FALSE

\* the for loop of calculate_score from index i on: number of correct answers
RECURSIVE CountCorrect(_, _, _, _)
CountCorrect(type, solutions, student_answers, i) ==
    IF i > Len(solutions) THEN 0
    ELSE (IF i <= Len(student_answers)
             /\ AnswerCorrect(type, student_answers[i], solutions[i])
          THEN 1 ELSE 0)
         + CountCorrect(type, solutions, student_answers, i + 1)

\* Exercise.calculate_score
calculate_score(exercise, student_answers) ==
    IF exercise.solutions = <<>> \/ student_answers = <<>>
    THEN RatInt(0)
    ELSE LET total_questions == Len(exercise.solutions)
             correct_answers ==
                 CountCorrect(exercise.type, exercise.solutions, student_answers, 1)
         IN  IF total_questions > 0
             THEN Rat(correct_answers * exercise.max_score, total_questions)
             ELSE RatInt(0)

\* ------------------------------------------------------------------------
\* Attempt lifecycle: ProgressService.start_exercise / submit_answers over
\* the exercises and progress tables.  Every request runs in its own
\* database session: it reads, changes its loaded objects in memory, and
\* commits; the commit writes the columns whose value changed.
\* ------------------------------------------------------------------------
MaxTime == 1

MaxCalls == 4

Students == {"s1"}

ExerciseIds == {1, 2}

Procs == {"p1", "p2"}

\* the exercise of the end-to-end example (tests/test_exercises.py
\* sample data): two multiple-choice questions, correct options [1, 1]
SampleExercise ==
    [type         |-> "multiple_choice",
     questions    |-> <<"q1", "q2">>,
     solutions    |-> <<SolutionObj(JNum(100), JMissing, JMissing),
                        SolutionObj(JNum(100), JMissing, JMissing)>>,
     max_score    |-> 100,
     is_published |-> TRUE]

OptCorrect == AnswerObj(JNum(100), JMissing)

OptWrong == AnswerObj(JNum(0), JMissing)

\* answer lists a student submits
SubmitAnswerSeqs == {<<OptCorrect, OptWrong>>, <<OptWrong>>}

SubmitTimes == {None, Some(120)}

VARIABLES
    exercises,   \* exercises table: exercise id -> None or Some(row)
    progress,    \* progress table: set of rows
    next_id,     \* next primary key of the progress table
    now,         \* datetime.utcnow()
    txn,         \* per request slot: the open session of a running call
    last,        \* the call that finished most recently and its outcome
    calls,       \* history: per (student, exercise) the calls that succeeded
    scoreIn,     \* scoring check: exercise and answers under test
    scoreOut,    \* scoring check: None or Some(result of calculate_score)
    cache,       \* flask cache: student id -> None or Some(cached response)
    reply,       \* the response of the latest student analytics request
    aggIn,       \* aggregation check: the tables and the clock under test
    aggOut,      \* aggregation check: the result of the aggregation applied
    notifications, \* notifications table: the rows in insertion order
    classes,     \* classes table: class id -> row
    enrollments  \* class_enrollments table: set of rows

vars == <<exercises, progress, next_id, now, txn, last, calls, scoreIn, scoreOut,
          cache, reply, aggIn, aggOut, notifications, classes, enrollments>>

aggVars == <<cache, reply, aggIn, aggOut>>

classVars == <<notifications, classes, enrollments>>

\* Python None in the attempts attribute of an object not yet flushed
PyNone == -1

\* Progress(student_id=..., exercise_id=...): only the two keyword
\* attributes are set, column defaults are not applied before the INSERT
NewProgress(student_id, exercise_id) ==
    [id           |-> 0,
     student_id   |-> student_id,
     exercise_id  |-> exercise_id,
     score        |-> None,
     status       |-> "None",
     attempts     |-> PyNone,
     time_spent   |-> None,
     answers      |-> <<>>,
     started_at   |-> None,
     completed_at |-> None,
     submitted_at |-> None,
     updated_at   |-> None]

\* variant of InsertDefaults whose status default is in_progress
InsertDefaultsOpened(obj, id) ==
    [obj EXCEPT !.id = id,
                !.status = IF obj.status = "None" THEN "in_progress" ELSE obj.status,
                !.attempts = IF obj.attempts = PyNone THEN 0 ELSE obj.attempts]

\* column defaults applied by the INSERT to attributes left unset
InsertDefaults(obj, id) ==
    [obj EXCEPT !.id = id,
                !.status = IF obj.status = "None" THEN "not_started" ELSE obj.status,
                !.attempts = IF obj.attempts = PyNone THEN 0 ELSE obj.attempts]

\* variant of start_attempt that clears the previous result on a retake
start_attempt_clearing(self, t) ==
    LET started ==
            IF self.status = "not_started"
            THEN [self EXCEPT !.status = "in_progress",
                              !.started_at = Some(t),
                              !.attempts = self.attempts + 1]
            ELSE IF self.status = "completed"
            THEN [self EXCEPT !.status = "in_progress",
                              !.attempts = self.attempts + 1,
                              !.score = None,
                              !.answers = <<>>]
            ELSE self
    IN  [started EXCEPT !.updated_at = Some(t)]

\* Progress.start_attempt
start_attempt(self, t) ==
    LET started ==
            IF self.status = "not_started"
            THEN [self EXCEPT !.status = "in_progress",
                              !.started_at = Some(t),
                              !.attempts = self.attempts + 1]
            ELSE IF self.status = "completed"
            THEN [self EXCEPT !.status = "in_progress",
                              !.attempts = self.attempts + 1]
            ELSE self
    IN  [started EXCEPT !.updated_at = Some(t)]

\* variant of submit_answers that adds the new score to the stored one
submit_answers_accumulating(self, answers, exercise, t) ==
    LET submitted == [self EXCEPT !.answers = answers,
                                  !.status = "submitted",
                                  !.submitted_at = Some(t),
                                  !.completed_at = Some(t)]
        scored ==
            IF ~IsNone(exercise)
            THEN [submitted EXCEPT
                     !.score = Some(IF IsNone(self.score)
                                    THEN calculate_score(Val(exercise), answers)
                                    ELSE RatAdd(Val(self.score),
                                                calculate_score(Val(exercise), answers))),
                     !.status = "completed"]
            ELSE submitted
    IN  [scored EXCEPT !.updated_at = Some(t)]

\* Progress.submit_answers (auto_score = True); exercise is self.exercise
submit_answers(self, answers, exercise, t) ==
    LET submitted == [self EXCEPT !.answers = answers,
                                  !.status = "submitted",
                                  !.submitted_at = Some(t),
                                  !.completed_at = Some(t)]
        scored ==
            IF ~IsNone(exercise)
            THEN [submitted EXCEPT !.score = Some(calculate_score(Val(exercise), answers)),
                                   !.status = "completed"]
            ELSE submitted
    IN  [scored EXCEPT !.updated_at = Some(t)]

PairRows(table, student_id, exercise_id) ==
    {r \in table : r.student_id = student_id /\ r.exercise_id = exercise_id}

\* variant of UniqueOk for a table without the unique constraint
UniqueOkUnconstrained(table, student_id, exercise_id) == TRUE

\* UniqueConstraint('student_id', 'exercise_id'): may a row for the pair be
\* inserted into the table?
UniqueOk(table, student_id, exercise_id) ==
    PairRows(table, student_id, exercise_id) = {}

\* UPDATE emitted by the flush: the columns whose value differs from the
\* loaded one are written; updated_at falls back to its onupdate default
WriteChanged(stored, loaded, obj, t) ==
    LET changed == {f \in DOMAIN obj : obj[f] # loaded[f]}
        written == [f \in DOMAIN stored |-> IF f \in changed THEN obj[f] ELSE stored[f]]
    IN  IF changed = {} THEN stored
        ELSE IF "updated_at" \in changed THEN written
        ELSE [written EXCEPT !.updated_at = Some(t)]

\* variant of ExerciseAvailable that filters on the id only
ExerciseAvailableUngated(table, exercise_id) == ~IsNone(table[exercise_id])

\* Exercise.query.filter(id == exercise_id, is_published == True).first()
\* finds a row
ExerciseAvailable(table, exercise_id) ==
    /\ ~IsNone(table[exercise_id])
    /\ Val(table[exercise_id]).is_published

\* variant of SubmittableStatuses that also admits a row never started
SubmittableStatusesWide == {"not_started", "in_progress", "completed"}

\* statuses in which submit_answers accepts a submission
SubmittableStatuses == {"in_progress", "completed"}

IdleTxn ==
    [pc |-> "idle", student_id |-> "s1", exercise_id |-> 1,
     loaded |-> NewProgress("s1", 1), obj |-> NewProgress("s1", 1)]

\* error is "" for a call that returned, else the exception it raised
Outcome(op, student_id, exercise_id, error) ==
    [op |-> op, student_id |-> student_id, exercise_id |-> exercise_id,
     ok |-> error = "", error |-> error]

NoCall == Outcome("none", "s1", 1, "")

Pairs == Students \X ExerciseIds

InFlight(student_id, exercise_id) ==
    Cardinality({p \in Procs : /\ txn[p].pc # "idle"
                               /\ txn[p].student_id = student_id
                               /\ txn[p].exercise_id = exercise_id})

\* bound on the number of calls per pair
MayCall(student_id, exercise_id) ==
    Len(calls[<<student_id, exercise_id>>]) + InFlight(student_id, exercise_id) < MaxCalls

Logged(student_id, exercise_id, entry) ==
    [calls EXCEPT ![<<student_id, exercise_id>>] = Append(@, entry)]

\* ------------------------------------------------------------------------
\* Aggregations over the progress table (AnalyticsService, DashboardService,
\* ClassManagementService).  Scores are exact rationals; timestamps are
\* whole days, so func.date(t) is t.
\* ------------------------------------------------------------------------
RatLt(a, b) == a.num * b.den < b.num * a.den

RatLe(a, b) == a.num * b.den <= b.num * a.den

\* sum(p.score for p in rows) / SQL sum of the score column
RECURSIVE SumScores(_)
SumScores(rows) ==
    IF rows = {} THEN RatInt(0)
    ELSE LET r == CHOOSE x \in rows : TRUE
         IN  RatAdd(Val(r.score), SumScores(rows \ {r}))

\* sum(...) / len(...) over a non-empty set of scored rows
MeanScore(rows) ==
    LET total == SumScores(rows)
    IN  Rat(total.num, total.den * Cardinality(rows))

\* round(x, 2): to the nearest hundredth, a tie to the even hundredth
Round2(x) ==
    LET n    == x.num * 100
        fl   == n \div x.den
        rem  == n % x.den
        up   == \/ 2 * rem > x.den
                \/ (2 * rem = x.den /\ fl % 2 = 1)
    IN  Rat(IF up THEN fl + 1 ELSE fl, 100)

\* func.avg(Progress.score) over the rows: NULL scores are skipped, the
\* result is NULL when no row has a score
SqlAvg(rows) ==
    LET scored == {r \in rows : ~IsNone(r.score)}
    IN  IF scored = {} THEN None ELSE Some(MeanScore(scored))

\* `round(avg_score, 2) if avg_score else 0`: None and 0 are both falsy
RoundedOrZero(avg_score) ==
    IF IsNone(avg_score) \/ Val(avg_score).num = 0 THEN RatInt(0)
    ELSE Round2(Val(avg_score))

\* `(a / b * 100) if b > 0 else 0`
PercentOrZero(a, b) == IF b > 0 THEN Rat(a * 100, b) ELSE RatInt(0)

RowsOfStudent(table, student_id) == {r \in table : r.student_id = student_id}

RowsOfStudents(table, student_ids) ==
    {r \in table : \E i \in 1..Len(student_ids) : student_ids[i] = r.student_id}

CompletedRows(rows) == {r \in rows : r.status = "completed"}

\* the list completed_with_scores of get_student_analytics
completed_with_scores(progress_records) ==
    {p \in progress_records : p.status = "completed" /\ ~IsNone(p.score)}

\* seven days, in days
WeekDays == 7

\* variant of StudentCompletionRate that divides without the guard
StudentCompletionRateUnguarded(completed_exercises, total_exercises) ==
    IF total_exercises = 0 THEN None
    ELSE Some(Rat(completed_exercises * 100, total_exercises))

\* 'completion_rate' of get_student_analytics; None stands for the
\* ZeroDivisionError of a division by zero
StudentCompletionRate(completed_exercises, total_exercises) ==
    Some(PercentOrZero(completed_exercises, total_exercises))

\* AnalyticsService.get_student_analytics: the 'summary' of the result
get_student_analytics(table, student_id, today) ==
    LET progress_records      == RowsOfStudent(table, student_id)
        total_exercises       == Cardinality(progress_records)
        completed_exercises   == Cardinality(CompletedRows(progress_records))
        in_progress_exercises ==
            Cardinality({p \in progress_records : p.status = "in_progress"})
        scored    == completed_with_scores(progress_records)
        avg_score == IF scored # {} THEN MeanScore(scored) ELSE RatInt(0)
        recent_activity ==
            Cardinality({p \in progress_records :
                            /\ ~IsNone(p.updated_at)
                            /\ Val(p.updated_at) >= today - WeekDays})
        rate == StudentCompletionRate(completed_exercises, total_exercises)
    IN  [raised                |-> IsNone(rate),
         total_exercises       |-> total_exercises,
         completed_exercises   |-> completed_exercises,
         in_progress_exercises |-> in_progress_exercises,
         completion_rate       |-> IF IsNone(rate) THEN RatInt(0) ELSE Val(rate),
         average_score         |-> Round2(avg_score),
         recent_activity       |-> recent_activity]

\* the five ranges of 'score_distribution' in get_class_analytics
ScoreRanges(scores) ==
    [r90_100  |-> Cardinality({p \in scores : RatLe(RatInt(90), Val(p.score))}),
     r80_89   |-> Cardinality({p \in scores : /\ RatLe(RatInt(80), Val(p.score))
                                             /\ RatLt(Val(p.score), RatInt(90))}),
     r70_79   |-> Cardinality({p \in scores : /\ RatLe(RatInt(70), Val(p.score))
                                             /\ RatLt(Val(p.score), RatInt(80))}),
     r60_69   |-> Cardinality({p \in scores : /\ RatLe(RatInt(60), Val(p.score))
                                             /\ RatLt(Val(p.score), RatInt(70))}),
     below_60 |-> Cardinality({p \in scores : RatLt(Val(p.score), RatInt(60))})]

\* AnalyticsService.get_class_analytics without filters: 'summary' and
\* 'score_distribution'
get_class_analytics(table) ==
    LET progress_records   == table
        total_attempts     == Cardinality(progress_records)
        completed_attempts == Cardinality(CompletedRows(progress_records))
        scores == {p \in progress_records : ~IsNone(p.score)}
    IN  [raised             |-> FALSE,
         total_attempts     |-> total_attempts,
         completed_attempts |-> completed_attempts,
         completion_rate    |-> PercentOrZero(completed_attempts, total_attempts),
         average_score      |-> IF scores # {} THEN Round2(MeanScore(scores))
                                ELSE RatInt(0),
         score_distribution |-> ScoreRanges(scores)]

\* DashboardService._get_student_overall_stats
get_student_overall_stats(table, student_id) ==
    LET mine            == RowsOfStudent(table, student_id)
        total_attempted == Cardinality(mine)
        total_completed == Cardinality(CompletedRows(mine))
        avg_score       == SqlAvg(CompletedRows(mine))
    IN  [raised          |-> FALSE,
         total_attempted |-> total_attempted,
         total_completed |-> total_completed,
         completion_rate |-> PercentOrZero(total_completed, total_attempted),
         average_score   |-> RoundedOrZero(avg_score)]

\* DashboardService._get_platform_statistics: the progress figures
get_platform_statistics(table) ==
    LET total_progress  == Cardinality(table)
        total_completed == Cardinality(CompletedRows(table))
        avg_score       == SqlAvg(CompletedRows(table))
    IN  [raised                 |-> FALSE,
         total_progress_records |-> total_progress,
         total_completed        |-> total_completed,
         completion_rate        |-> Round2(PercentOrZero(total_completed, total_progress)),
         average_score          |-> RoundedOrZero(avg_score)]

\* the five (name, min_score, max_score) ranges of 'performance_distribution'
\* in _get_student_performance_insights: a completed row of one of the
\* students is counted where min_score <= score <= max_score
InRange(rows, min_score, max_score) ==
    Cardinality({p \in rows : /\ ~IsNone(p.score)
                              /\ RatLe(RatInt(min_score), Val(p.score))
                              /\ RatLe(Val(p.score), RatInt(max_score))})

\* DashboardService._get_student_performance_insights: 'performance_distribution'
performance_distribution(table, student_ids) ==
    LET rows == CompletedRows(RowsOfStudents(table, student_ids))
    IN  [r90_100  |-> InRange(rows, 90, 100),
         r80_89   |-> InRange(rows, 80, 89),
         r70_79   |-> InRange(rows, 70, 79),
         r60_69   |-> InRange(rows, 60, 69),
         below_60 |-> InRange(rows, 0, 59)]

\* the sequences that list every element of S once
Orderings(S) ==
    {f \in [1..Cardinality(S) -> S] : \A i, j \in 1..Cardinality(S) : f[i] = f[j] => i = j}

\* first n elements of a list (list[:n])
Take(list, n) == SubSeq(list, 1, Min(n, Len(list)))

\* .distinct().order_by(desc('date')): the dates of a set, latest first
RECURSIVE DatesDescending(_)
DatesDescending(dates) ==
    IF dates = {} THEN <<>>
    ELSE <<SetMax(dates)>> \o DatesDescending(dates \ {SetMax(dates)})

\* the for loop of _calculate_streak from row i on
RECURSIVE StreakLoop(_, _, _, _)
StreakLoop(completed_dates, i, streak, current_date) ==
    IF i > Len(completed_dates) THEN streak
    ELSE IF completed_dates[i] = current_date
    THEN StreakLoop(completed_dates, i + 1, streak + 1, current_date - 1)
    ELSE IF completed_dates[i] = current_date - 1
    THEN StreakLoop(completed_dates, i + 1, streak + 1, completed_dates[i] - 1)
    ELSE streak

\* DashboardService._calculate_streak
calculate_streak(table, student_id, today) ==
    LET completed_dates ==
            DatesDescending({Val(r.updated_at) :
                                r \in CompletedRows(RowsOfStudent(table, student_id))})
    IN  IF completed_dates = <<>> THEN 0
        ELSE StreakLoop(completed_dates, 1, 0, today)

\* .distinct().order_by('date'): the dates of a set, earliest first
DatesAscending(dates) ==
    LET descending == DatesDescending(dates)
        n == Len(descending)
    IN  [i \in 1..n |-> descending[n + 1 - i]]

\* variant of NextDay that accepts any later date
LaterDay(prev_date, current_date) == current_date > prev_date

\* current_date == prev_date + timedelta(days=1)
NextDay(prev_date, current_date) == current_date = prev_date + 1

\* the for loop of _calculate_longest_streak from index i on
RECURSIVE LongestStreakLoop(_, _, _, _)
LongestStreakLoop(completed_dates, i, longest_streak, current_streak) ==
    IF i > Len(completed_dates) THEN longest_streak
    ELSE IF NextDay(completed_dates[i - 1], completed_dates[i])
    THEN LongestStreakLoop(completed_dates, i + 1,
                           IF current_streak + 1 > longest_streak
                           THEN current_streak + 1 ELSE longest_streak,
                           current_streak + 1)
    ELSE LongestStreakLoop(completed_dates, i + 1, longest_streak, 1)

\* DashboardService._calculate_longest_streak
calculate_longest_streak(table, student_id) ==
    LET completed_dates ==
            DatesAscending({Val(r.updated_at) :
                               r \in CompletedRows(RowsOfStudent(table, student_id))})
    IN  IF completed_dates = <<>> THEN 0
        ELSE LongestStreakLoop(completed_dates, 2, 1, 1)

\* one row of a GROUP BY student_id query: the average of the non-NULL
\* scores (NULL when there is none) and the number of rows
GroupRow(rows, student_id) ==
    [student_id |-> student_id,
     avg_score  |-> SqlAvg(RowsOfStudent(rows, student_id)),
     count      |-> Cardinality(RowsOfStudent(rows, student_id))]

GroupByStudent(rows) == {GroupRow(rows, s) : s \in {r.student_id : r \in rows}}

\* the results a query ordered by desc('avg_score') can return: rows with
\* equal averages come in any order
OrderedByAvgDesc(groups) ==
    {f \in Orderings(groups) :
        \A i, j \in 1..Len(f) :
            i < j => RatLe(Val(f[j].avg_score), Val(f[i].avg_score))}

\* ClassManagementService._get_top_performers: the lists it can return
\* (every student id has a user)
get_top_performers(table, student_ids, limit) ==
    IF student_ids = <<>> THEN {<<>>}
    ELSE LET rows == {r \in RowsOfStudents(table, student_ids) :
                         r.status = "completed" /\ ~IsNone(r.score)}
         IN  {[i \in 1..Len(Take(f, limit)) |->
                  [student_id          |-> f[i].student_id,
                   average_score       |-> Round2(Val(f[i].avg_score)),
                   completed_exercises |-> f[i].count]] :
                 f \in OrderedByAvgDesc(GroupByStudent(rows))}

\* `avg_score and avg_score < threshold`
LowAverage(avg_score, threshold) ==
    /\ ~IsNone(avg_score)
    /\ Val(avg_score).num # 0
    /\ RatLt(Val(avg_score), RatInt(threshold))

\* ClassManagementService._get_struggling_students: the lists it can
\* return; the grouped rows come in any order
get_struggling_students(table, student_ids, limit) ==
    IF student_ids = <<>> THEN {<<>>}
    ELSE LET student_stats == GroupByStudent(RowsOfStudents(table, student_ids))
             Struggling(g) == LowAverage(g.avg_score, 60) \/ g.count < 3
             Entry(g) == [student_id     |-> g.student_id,
                          average_score  |-> RoundedOrZero(g.avg_score),
                          total_attempts |-> g.count,
                          reason |-> IF LowAverage(g.avg_score, 60)
                                     THEN "Low average score" ELSE "Few attempts"]
         IN  {Take([i \in 1..Len(SelectSeq(f, Struggling)) |->
                       Entry(SelectSeq(f, Struggling)[i])], limit) :
                 f \in Orderings(student_stats)}

\* DashboardService._get_struggling_students_for_professor over the active
\* enrollments of the professor's classes, in the order the query gave them
get_struggling_students_for_professor(table, student_ids, today) ==
    LET Avg(s) == SqlAvg({r \in RowsOfStudent(table, s) :
                             r.status = "completed" /\ ~IsNone(r.score)})
        Recent(s) == Cardinality({r \in RowsOfStudent(table, s) :
                                     /\ ~IsNone(r.updated_at)
                                     /\ Val(r.updated_at) >= today - WeekDays})
        Struggling(s) == LowAverage(Avg(s), 70) \/ Recent(s) = 0
        flagged == SelectSeq(student_ids, Struggling)
    IN  Take([i \in 1..Len(flagged) |->
                 [student_id      |-> flagged[i],
                  average_score   |-> RoundedOrZero(Avg(flagged[i])),
                  recent_activity |-> Recent(flagged[i]),
                  reason |-> IF LowAverage(Avg(flagged[i]), 70)
                             THEN "Low average score" ELSE "No recent activity"]], 10)

\* AnalyticsService._get_performance_trend: the lists it can return, oldest
\* first (rows completed on the same day come in any order)
get_performance_trend(table, student_id) ==
    LET rows == {r \in RowsOfStudent(table, student_id) :
                    r.status = "completed" /\ ~IsNone(r.score)}
    IN  {[i \in 1..Len(Take(f, 10)) |->
             [date  |-> Take(f, 10)[Len(Take(f, 10)) + 1 - i].completed_at,
              score |-> Take(f, 10)[Len(Take(f, 10)) + 1 - i].score]] :
            f \in {g \in Orderings(rows) :
                      \A i, j \in 1..Len(g) :
                          i < j => Val(g[j].completed_at) <= Val(g[i].completed_at)}}

\* a dict without keys
EmptyDict == [k \in {} |-> 0]

\* result slot of the aggregation check before any aggregation ran
NoAgg ==
    [op |-> "none", student_id |-> "s1", limit |-> 5, db_ok |-> TRUE,
     raised |-> FALSE, val |-> EmptyDict]

DefaultAggIn == [table |-> {}, student_ids |-> <<>>, today |-> 0]

\* Class.max_students column default
DefaultMaxStudents == 30

ClassIds == {1}

\* the code Class.generate_class_code gave the class
SampleClassCode == "MATH01"

\* the columns of a classes row that enrolment reads
ClassRow(class_code, max_students, is_active) ==
    [class_code |-> class_code, max_students |-> max_students, is_active |-> is_active]

DefaultClasses ==
    [c \in ClassIds |-> ClassRow(SampleClassCode, DefaultMaxStudents, TRUE)]

DefaultScoreIn ==
    [type |-> "multiple_choice", questions |-> <<>>, solutions |-> <<>>,
     max_score |-> 100, answers |-> <<>>]

Init ==
    /\ exercises = [e \in ExerciseIds |-> IF e = 1 THEN Some(SampleExercise) ELSE None]
    /\ progress = {}
    /\ next_id = 1
    /\ now = 0
    /\ txn = [p \in Procs |-> IdleTxn]
    /\ last = NoCall
    /\ calls = [pr \in Pairs |-> <<>>]
    /\ scoreIn = DefaultScoreIn
    /\ scoreOut = None
    /\ cache = [s \in Students |-> None]
    /\ reply = None
    /\ aggIn = DefaultAggIn
    /\ aggOut = NoAgg
    /\ notifications = <<>>
    /\ classes = DefaultClasses
    /\ enrollments = {}

\* start_exercise up to the commit: the two queries and start_attempt, or
\* the ValueError of an unknown / unpublished exercise
StartExercise(p, student_id, exercise_id) ==
    /\ txn[p].pc = "idle"
    /\ MayCall(student_id, exercise_id)
    /\ IF ~ExerciseAvailable(exercises, exercise_id)
       THEN /\ last' = Outcome("start", student_id, exercise_id, "ValueError")
            /\ UNCHANGED <<txn, calls>>
       ELSE /\ \E loaded \in (IF PairRows(progress, student_id, exercise_id) = {}
                              THEN {NewProgress(student_id, exercise_id)}
                              ELSE PairRows(progress, student_id, exercise_id)) :
                   txn' = [txn EXCEPT ![p] =
                       [pc |-> "start", student_id |-> student_id,
                        exercise_id |-> exercise_id, loaded |-> loaded,
                        obj |-> start_attempt(loaded, now)]]
            /\ UNCHANGED <<last, calls>>
    /\ UNCHANGED <<exercises, progress, next_id, now, scoreIn, scoreOut, aggVars, classVars>>

\* db.session.commit() of start_exercise: INSERT of a new row (rejected by
\* the unique constraint when the pair already has one) or UPDATE
StartCommit(p) ==
    LET t == txn[p] IN
    /\ t.pc = "start"
    /\ IF t.loaded.id = 0
       THEN IF UniqueOk(progress, t.student_id, t.exercise_id)
            THEN /\ progress' = progress \cup {InsertDefaults(t.obj, next_id)}
                 /\ next_id' = next_id + 1
                 /\ last' = Outcome("start", t.student_id, t.exercise_id, "")
                 /\ calls' = Logged(t.student_id, t.exercise_id, "start")
            ELSE /\ last' = Outcome("start", t.student_id, t.exercise_id, "IntegrityError")
                 /\ UNCHANGED <<progress, next_id, calls>>
       ELSE /\ progress' = {IF r.id = t.loaded.id
                            THEN WriteChanged(r, t.loaded, t.obj, now) ELSE r :
                            r \in progress}
            /\ last' = Outcome("start", t.student_id, t.exercise_id, "")
            /\ calls' = Logged(t.student_id, t.exercise_id, "start")
            /\ UNCHANGED next_id
    /\ txn' = [txn EXCEPT ![p] = IdleTxn]
    /\ UNCHANGED <<exercises, now, scoreIn, scoreOut, aggVars, classVars>>

\* submit_answers up to the commit: the query, the two state checks, the
\* time_spent assignment and Progress.submit_answers
SubmitAnswers(p, student_id, exercise_id, answers, time_spent) ==
    /\ txn[p].pc = "idle"
    /\ MayCall(student_id, exercise_id)
    /\ IF PairRows(progress, student_id, exercise_id) = {}
       THEN /\ last' = Outcome("submit", student_id, exercise_id, "ValueError")
            /\ UNCHANGED <<txn, calls>>
       ELSE \E loaded \in PairRows(progress, student_id, exercise_id) :
              IF loaded.status \notin SubmittableStatuses
              THEN /\ last' = Outcome("submit", student_id, exercise_id, "ValueError")
                   /\ UNCHANGED <<txn, calls>>
              ELSE LET timed == IF IsNone(time_spent) THEN loaded
                                ELSE [loaded EXCEPT !.time_spent = time_spent]
                   IN  /\ txn' = [txn EXCEPT ![p] =
                              [pc |-> "submit", student_id |-> student_id,
                               exercise_id |-> exercise_id, loaded |-> loaded,
                               obj |-> submit_answers(timed, answers,
                                                      exercises[exercise_id], now)]]
                       /\ UNCHANGED <<last, calls>>
    /\ UNCHANGED <<exercises, progress, next_id, now, scoreIn, scoreOut, aggVars, classVars>>

\* db.session.commit() of submit_answers
SubmitCommit(p) ==
    LET t == txn[p] IN
    /\ t.pc = "submit"
    /\ progress' = {IF r.id = t.loaded.id
                    THEN WriteChanged(r, t.loaded, t.obj, now) ELSE r : r \in progress}
    /\ last' = Outcome("submit", t.student_id, t.exercise_id, "")
    /\ calls' = Logged(t.student_id, t.exercise_id, "submit")
    /\ txn' = [txn EXCEPT ![p] = IdleTxn]
    /\ UNCHANGED <<exercises, next_id, now, scoreIn, scoreOut, aggVars, classVars>>

\* update_exercise with data {is_published: flag}
UpdateExercise(exercise_id, flag) ==
    /\ ~IsNone(exercises[exercise_id])
    /\ Val(exercises[exercise_id]).is_published # flag
    /\ exercises' = [exercises EXCEPT ![exercise_id] =
           Some([Val(@) EXCEPT !.is_published = flag])]
    /\ UNCHANGED <<progress, next_id, now, txn, last, calls, scoreIn, scoreOut, aggVars, classVars>>

\* the clock advances
Tick ==
    /\ now < MaxTime
    /\ now' = now + 1
    /\ UNCHANGED <<exercises, progress, next_id, txn, last, calls, scoreIn, scoreOut, aggVars, classVars>>

Next ==
    \/ \E p \in Procs, s \in Students, e \in ExerciseIds : StartExercise(p, s, e)
    \/ \E p \in Procs : StartCommit(p)
    \/ \E p \in Procs, s \in Students, e \in ExerciseIds,
          a \in SubmitAnswerSeqs, ts \in SubmitTimes : SubmitAnswers(p, s, e, a, ts)
    \/ \E p \in Procs : SubmitCommit(p)
    \/ \E e \in ExerciseIds, flag \in BOOLEAN : UpdateExercise(e, flag)
    \/ Tick

Spec == Init /\ [][Next]_vars

\* ------------------------------------------------------------------------
\* One client at a time: the calls of the attempt lifecycle, the edits of
\* an exercise's max_score and the cached student analytics endpoint.
\* ------------------------------------------------------------------------
\* the request slot of the client
Client == "p1"

\* values a professor gives max_score
EditedMaxima == {25, 100}

\* update_exercise with data {max_score: max_score}
UpdateExerciseMaxScore(exercise_id, max_score) ==
    /\ ~IsNone(exercises[exercise_id])
    /\ Val(exercises[exercise_id]).max_score # max_score
    /\ exercises' = [exercises EXCEPT ![exercise_id] =
           Some([Val(@) EXCEPT !.max_score = max_score])]
    /\ UNCHANGED <<progress, next_id, now, txn, last, calls, scoreIn, scoreOut, aggVars, classVars>>

\* StudentAnalyticsResource.get: the cached response if there is one, else
\* the analytics computed now, which are cached for 900 s
StudentAnalyticsGet(student_id) ==
    /\ IF ~IsNone(cache[student_id])
       THEN /\ reply' = cache[student_id]
            /\ UNCHANGED cache
       ELSE LET data == get_student_analytics(progress, student_id, now)
            IN  /\ reply' = Some(data)
                /\ cache' = [cache EXCEPT ![student_id] = Some(data)]
    /\ UNCHANGED <<exercises, progress, next_id, now, txn, last, calls,
                   scoreIn, scoreOut, aggIn, aggOut, classVars>>

\* the timeout of a cached response has passed, or the cache was cleared
\* (invalidate_cache_pattern clears the whole cache)
CacheExpire(student_id) ==
    /\ ~IsNone(cache[student_id])
    /\ cache' = [cache EXCEPT ![student_id] = None]
    /\ UNCHANGED <<exercises, progress, next_id, now, txn, last, calls,
                   scoreIn, scoreOut, reply, aggIn, aggOut, classVars>>

NextSeq ==
    \/ \E s \in Students, e \in ExerciseIds : StartExercise(Client, s, e)
    \/ StartCommit(Client)
    \/ \E s \in Students, e \in ExerciseIds, a \in SubmitAnswerSeqs, ts \in SubmitTimes :
          SubmitAnswers(Client, s, e, a, ts)
    \/ SubmitCommit(Client)
    \/ \E e \in ExerciseIds, flag \in BOOLEAN : UpdateExercise(e, flag)
    \/ \E e \in ExerciseIds, m \in EditedMaxima : UpdateExerciseMaxScore(e, m)
    \/ \E s \in Students : StudentAnalyticsGet(s)
    \/ \E s \in Students : CacheExpire(s)
    \/ Tick

SpecSeq == Init /\ [][NextSeq]_vars

\* ------------------------------------------------------------------------
\* Two requests at a time on the attempts of one student: start and submit
\* calls with answer lists of which two score the same.
\* ------------------------------------------------------------------------
\* answer lists a student submits; the first two score 0 on the sample
\* exercise, the third scores half
RaceAnswerSeqs == {<<OptWrong>>, <<OptWrong, OptWrong>>, <<OptCorrect, OptWrong>>}

\* the row of student s1 and exercise 1 after a first start, a second
\* start and a submit of the answers, each committed before the next call
SubmittedRow(answers) ==
    submit_answers(
        start_attempt(InsertDefaults(start_attempt(NewProgress("s1", 1), 0), 1), 0),
        answers, Some(SampleExercise), 0)

\* the student has no row yet, or has submitted once
InitRace ==
    /\ exercises = [e \in ExerciseIds |-> IF e = 1 THEN Some(SampleExercise) ELSE None]
    /\ progress \in {{}} \cup {{SubmittedRow(a)} : a \in RaceAnswerSeqs}
    /\ next_id = IF progress = {} THEN 1 ELSE 2
    /\ now = 0
    /\ txn = [p \in Procs |-> IdleTxn]
    /\ last = NoCall
    /\ calls = [pr \in Pairs |-> <<>>]
    /\ scoreIn = DefaultScoreIn
    /\ scoreOut = None
    /\ cache = [s \in Students |-> None]
    /\ reply = None
    /\ aggIn = DefaultAggIn
    /\ aggOut = NoAgg
    /\ notifications = <<>>
    /\ classes = DefaultClasses
    /\ enrollments = {}

NextRace ==
    \/ \E p \in Procs, s \in Students, e \in ExerciseIds : StartExercise(p, s, e)
    \/ \E p \in Procs : StartCommit(p)
    \/ \E p \in Procs, s \in Students, e \in ExerciseIds, a \in RaceAnswerSeqs :
          SubmitAnswers(p, s, e, a, None)
    \/ \E p \in Procs : SubmitCommit(p)

SpecRace == InitRace /\ [][NextRace]_vars

\* ------------------------------------------------------------------------
\* Exercise definitions: the professor's create and update requests, and
\* the student's start and submit requests against the exercises they
\* leave.
\* ------------------------------------------------------------------------
ExerciseTypes == {"multiple_choice", "short_answer", "calculation", "essay"}

\* Exercise.max_score default applied by create_exercise
DefaultMaxScore == 100

ChoiceSolution == SolutionObj(JNum(100), JMissing, JMissing)

\* the model answer of an essay question
EssaySolution == SolutionObj(JMissing, JStr(<<"a">>), JMissing)

\* data.get(field, default)
DataGet(data, field, default) ==
    IF field \in DOMAIN data THEN data[field] ELSE default

\* request bodies of POST /exercises
ExerciseDrafts ==
    {[type |-> "essay", questions |-> <<"q1">>, solutions |-> <<EssaySolution>>,
      is_published |-> TRUE],
     [questions |-> <<"q1", "q2">>, solutions |-> <<ChoiceSolution>>]}

\* request bodies of PUT /exercises/<id>
ExerciseUpdates ==
    {[solutions |-> <<ChoiceSolution>>],
     [type |-> "essay"],
     [solutions |-> <<>>]}

\* ExerciseCreateSchema: questions and solutions are required, not empty,
\* of the same length, and the solutions carry the key their type needs
ExerciseCreateSchemaLoads(data) ==
    /\ {"questions", "solutions"} \subseteq DOMAIN data
    /\ DataGet(data, "type", "multiple_choice") \in ExerciseTypes
    /\ Len(data.questions) >= 1
    /\ Len(data.solutions) >= 1
    /\ Len(data.questions) = Len(data.solutions)
    /\ \A i \in 1..Len(data.solutions) :
          CASE DataGet(data, "type", "multiple_choice") = "multiple_choice"
                  -> data.solutions[i].correct_option # JMissing
            [] DataGet(data, "type", "multiple_choice") \in {"calculation", "short_answer"}
                  -> data.solutions[i].answer # JMissing
            [] OTHER -> TRUE

\* ExerciseUpdateSchema: every field is optional and validated on its own
ExerciseUpdateSchemaLoads(data) ==
    /\ "type" \in DOMAIN data => data.type \in ExerciseTypes
    /\ "questions" \in DOMAIN data => Len(data.questions) >= 1
    /\ "solutions" \in DOMAIN data => Len(data.solutions) >= 1

\* the row ExerciseService.create_exercise inserts for a request body
create_exercise(data) ==
    [type         |-> DataGet(data, "type", "multiple_choice"),
     questions    |-> data.questions,
     solutions    |-> data.solutions,
     max_score    |-> DataGet(data, "max_score", DefaultMaxScore),
     is_published |-> DataGet(data, "is_published", FALSE)]

\* the setattr loop of ExerciseService.update_exercise
update_exercise(exercise, data) ==
    [f \in DOMAIN exercise |-> IF f \in DOMAIN data THEN data[f] ELSE exercise[f]]

\* the ids not yet given to an exercise
FreeExerciseIds == {e \in ExerciseIds : IsNone(exercises[e])}

\* ExerciseListResource.post: schema validation, then create_exercise
\* inserts the row under the next id
ExercisePost(data) ==
    /\ FreeExerciseIds # {}
    /\ IF ExerciseCreateSchemaLoads(data)
       THEN LET id == CHOOSE e \in FreeExerciseIds : \A f \in FreeExerciseIds : e <= f
            IN  /\ exercises' = [exercises EXCEPT ![id] = Some(create_exercise(data))]
                /\ last' = Outcome("create", "s1", id, "")
       ELSE /\ last' = Outcome("create", "s1", 1, "ValidationError")
            /\ UNCHANGED exercises
    /\ UNCHANGED <<progress, next_id, now, txn, calls, scoreIn, scoreOut, aggVars, classVars>>

\* ExerciseResource.put: schema validation, then update_exercise
ExercisePut(exercise_id, data) ==
    /\ ~IsNone(exercises[exercise_id])
    /\ IF ExerciseUpdateSchemaLoads(data)
       THEN /\ exercises' = [exercises EXCEPT ![exercise_id] =
                                Some(update_exercise(Val(@), data))]
            /\ last' = Outcome("update", "s1", exercise_id, "")
       ELSE /\ last' = Outcome("update", "s1", exercise_id, "ValidationError")
            /\ UNCHANGED exercises
    /\ UNCHANGED <<progress, next_id, now, txn, calls, scoreIn, scoreOut, aggVars, classVars>>

\* time_spent values of submission request bodies (None: key absent)
PostedTimes == {None, Some(-5), Some(60), Some(120)}

\* answers of submission request bodies
PostedAnswers == {<<OptCorrect>>, <<>>}

\* ProgressSubmissionSchema: time_spent, when present, is not negative
ProgressSubmissionSchemaLoads(answers, time_spent) ==
    /\ Len(answers) >= 1
    /\ IsNone(time_spent) \/ Val(time_spent) >= 0

\* ProgressSubmissionResource.post: schema validation, then
\* ProgressService.submit_answers
ProgressSubmissionPost(p, student_id, exercise_id, answers, time_spent) ==
    IF ProgressSubmissionSchemaLoads(answers, time_spent)
    THEN SubmitAnswers(p, student_id, exercise_id, answers, time_spent)
    ELSE /\ txn[p].pc = "idle"
         /\ last' = Outcome("submit", student_id, exercise_id, "ValidationError")
         /\ UNCHANGED <<exercises, progress, next_id, now, txn, calls,
                        scoreIn, scoreOut, aggVars, classVars>>

NextEx ==
    \/ \E data \in ExerciseDrafts : ExercisePost(data)
    \/ \E e \in ExerciseIds, data \in ExerciseUpdates : ExercisePut(e, data)
    \/ \E s \in Students, e \in ExerciseIds : StartExercise(Client, s, e)
    \/ StartCommit(Client)
    \/ \E s \in Students, e \in ExerciseIds, a \in PostedAnswers, ts \in PostedTimes :
          ProgressSubmissionPost(Client, s, e, a, ts)
    \/ SubmitCommit(Client)

SpecEx == Init /\ [][NextEx]_vars

\* ------------------------------------------------------------------------
\* Class enrolment: ClassManagementService.enroll_student,
\* unenroll_student and enroll_by_class_code on one class, and the
\* professor's activation switch.
\* ------------------------------------------------------------------------
\* bound on the number of enrolment notifications
MaxNotifications == 4

EnrollStudentIds == {"s1", "s2", "s3"}

\* max_students values a professor gives a class
ClassSizes == {1, 2}

\* class codes students type
TypedClassCodes == {"math01", "MATH01", "XXXXXX"}

\* str.upper() on the typed class codes
Upper(code) == IF code = "math01" THEN "MATH01" ELSE code

InitEnroll ==
    /\ exercises = [e \in ExerciseIds |-> IF e = 1 THEN Some(SampleExercise) ELSE None]
    /\ progress = {}
    /\ next_id = 1
    /\ now = 0
    /\ txn = [p \in Procs |-> IdleTxn]
    /\ last = NoCall
    /\ calls = [pr \in Pairs |-> <<>>]
    /\ scoreIn = DefaultScoreIn
    /\ scoreOut = None
    /\ cache = [s \in Students |-> None]
    /\ reply = None
    /\ aggIn = DefaultAggIn
    /\ aggOut = NoAgg
    /\ notifications = <<>>
    /\ classes \in {[c \in ClassIds |-> ClassRow(SampleClassCode, m, TRUE)] : m \in ClassSizes}
    /\ enrollments = {}

\* ClassEnrollment rows of a class and a student
EnrollmentRows(class_id, student_id) ==
    {r \in enrollments : r.class_id = class_id /\ r.student_id = student_id}

\* the count() of the active enrolments of a class
active_enrollments(table, class_id) ==
    Cardinality({r \in table : r.class_id = class_id /\ r.enrollment_status = "active"})

\* _create_enrollment_notification
EnrollmentNotification(student_id, class_id, action) ==
    [user_id |-> student_id, type |-> "class_enrollment",
     class_id |-> class_id, action |-> action]

EnrollUnchanged ==
    UNCHANGED <<exercises, progress, next_id, now, txn, calls, scoreIn, scoreOut, aggVars>>

\* enroll_student(class_id, student_id)
EnrollStudent(class_id, student_id) ==
    /\ Len(notifications) < MaxNotifications
    /\ IF ~classes[class_id].is_active
       THEN /\ last' = Outcome("enroll", student_id, class_id, "ValueError")
            /\ UNCHANGED <<enrollments, notifications>>
       ELSE IF EnrollmentRows(class_id, student_id) # {}
       THEN \E existing_enrollment \in EnrollmentRows(class_id, student_id) :
              IF existing_enrollment.enrollment_status = "active"
              THEN /\ last' = Outcome("enroll", student_id, class_id, "ValueError")
                   /\ UNCHANGED <<enrollments, notifications>>
              ELSE /\ enrollments' = (enrollments \ {existing_enrollment})
                          \cup {[existing_enrollment EXCEPT !.enrollment_status = "active",
                                                            !.enrolled_at = now]}
                   /\ last' = Outcome("enroll", student_id, class_id, "")
                   /\ UNCHANGED notifications
       ELSE IF active_enrollments(enrollments, class_id) >= classes[class_id].max_students
       THEN /\ last' = Outcome("enroll", student_id, class_id, "ValueError")
            /\ UNCHANGED <<enrollments, notifications>>
       ELSE /\ enrollments' = enrollments \cup
                   {[class_id |-> class_id, student_id |-> student_id,
                     enrollment_status |-> "active", enrolled_at |-> now]}
            /\ notifications' = Append(notifications,
                   EnrollmentNotification(student_id, class_id, "enrolled"))
            /\ last' = Outcome("enroll", student_id, class_id, "")
    /\ UNCHANGED classes
    /\ EnrollUnchanged

\* unenroll_student(class_id, student_id)
UnenrollStudent(class_id, student_id) ==
    /\ Len(notifications) < MaxNotifications
    /\ LET active == {r \in EnrollmentRows(class_id, student_id) :
                         r.enrollment_status = "active"}
       IN  IF active = {}
           THEN /\ last' = Outcome("unenroll", student_id, class_id, "ValueError")
                /\ UNCHANGED <<enrollments, notifications>>
           ELSE /\ enrollments' = (enrollments \ active)
                       \cup {[r EXCEPT !.enrollment_status = "dropped"] : r \in active}
                /\ notifications' = Append(notifications,
                       EnrollmentNotification(student_id, class_id, "unenrolled"))
                /\ last' = Outcome("unenroll", student_id, class_id, "")
    /\ UNCHANGED classes
    /\ EnrollUnchanged

\* enroll_by_class_code(class_code, student_id): the active class with the
\* upper-cased code, then enroll_student
EnrollByClassCode(class_code, student_id) ==
    LET found == {c \in ClassIds : /\ classes[c].class_code = Upper(class_code)
                                   /\ classes[c].is_active}
    IN  IF found = {}
        THEN /\ last' = Outcome("enroll", student_id, 1, "ValueError")
             /\ UNCHANGED <<classes, enrollments, notifications>>
             /\ EnrollUnchanged
        ELSE \E c \in found : EnrollStudent(c, student_id)

\* update_class with data {is_active: flag}
UpdateClassActive(class_id, flag) ==
    /\ classes[class_id].is_active # flag
    /\ classes' = [classes EXCEPT ![class_id].is_active = flag]
    /\ UNCHANGED <<last, enrollments, notifications>>
    /\ EnrollUnchanged

NextEnroll ==
    \/ \E c \in ClassIds, s \in EnrollStudentIds : EnrollStudent(c, s)
    \/ \E c \in ClassIds, s \in EnrollStudentIds : UnenrollStudent(c, s)
    \/ \E code \in TypedClassCodes, s \in EnrollStudentIds : EnrollByClassCode(code, s)
    \/ \E c \in ClassIds, flag \in BOOLEAN : UpdateClassActive(c, flag)

SpecEnroll == InitEnroll /\ [][NextEnroll]_vars

\* ------------------------------------------------------------------------
\* Scoring check: calculate_score applied to exercises and answer lists
\* drawn from bounded sets.
\* ------------------------------------------------------------------------
MaxQuestions == 2

\* sequences over S with length lo..hi
SeqsOf(S, lo, hi) == UNION {[1..n -> S] : n \in lo..hi}

ScoreMaxima == {100, 7}

Questions(n) == [i \in 1..n |-> "q"]

ScoreInput(type, nq, solutions, max_score, answers) ==
    [type |-> type, questions |-> Questions(nq), solutions |-> solutions,
     max_score |-> max_score, answers |-> answers]

ChoiceSolutions == {SolutionObj(JNum(100), JMissing, JMissing),
                    SolutionObj(JNum(0), JMissing, JMissing)}

ChoiceAnswers == {OptCorrect, OptWrong, AnswerObj(JMissing, JStr(<<"a">>))}

\* expected 0 and 1 with the default tolerance, expected 4 with tolerance 0.1
CalcSolutions == {SolutionObj(JMissing, JNum(0), JMissing),
                  SolutionObj(JMissing, JNum(100), JMissing),
                  SolutionObj(JMissing, JNum(400), JNum(10))}

CalcNumbers == {-2, -1, 0, 1, 2, 98, 99, 100, 101, 102, 380, 389, 390, 395, 400, 410, 411}

CalcAnswers ==
    {AnswerObj(JMissing, JNum(n)) : n \in CalcNumbers}
        \cup {AnswerObj(JMissing, JStr(<<"a">>)), AnswerObj(JMissing, JStr(<<" ", "4">>)),
              AnswerObj(JMissing, JNull), AnswerObj(JNum(0), JMissing)}

CalcPairAnswers == {AnswerObj(JMissing, JNum(n)) : n \in {0, 100, 400}}

TextSolutions == {SolutionObj(JMissing, JStr(<<"a">>), JMissing),
                  SolutionObj(JMissing, JStr(<<"B", " ">>), JMissing)}

TextAnswers == {AnswerObj(JMissing, JStr(<<" ", "A">>)),
                AnswerObj(JMissing, JStr(<<"b">>)),
                AnswerObj(JMissing, JStr(<<"a", "b">>)),
                AnswerObj(JMissing, JNull)}

ScoreInputs ==
    {ScoreInput("multiple_choice", Len(sol), sol, mx, ans) :
        sol \in SeqsOf(ChoiceSolutions, 1, MaxQuestions),
        mx \in ScoreMaxima,
        ans \in SeqsOf(ChoiceAnswers, 0, MaxQuestions + 1)}
    \cup
    {ScoreInput("calculation", 1, <<sol>>, mx, ans) :
        sol \in CalcSolutions, mx \in ScoreMaxima, ans \in SeqsOf(CalcAnswers, 0, 1)}
    \cup
    {ScoreInput("calculation", Len(sol), sol, 100, ans) :
        sol \in SeqsOf(CalcSolutions, 2, MaxQuestions),
        ans \in SeqsOf(CalcPairAnswers, 1, MaxQuestions)}
    \cup
    {ScoreInput(type, Len(sol), sol, 100, ans) :
        type \in {"short_answer", "essay"},
        sol \in SeqsOf(TextSolutions, 1, MaxQuestions),
        ans \in SeqsOf(TextAnswers, 0, MaxQuestions)}

InitScore ==
    /\ exercises = [e \in ExerciseIds |-> IF e = 1 THEN Some(SampleExercise) ELSE None]
    /\ progress = {}
    /\ next_id = 1
    /\ now = 0
    /\ txn = [p \in Procs |-> IdleTxn]
    /\ last = NoCall
    /\ calls = [pr \in Pairs |-> <<>>]
    /\ scoreIn \in ScoreInputs
    /\ scoreOut = None
    /\ cache = [s \in Students |-> None]
    /\ reply = None
    /\ aggIn = DefaultAggIn
    /\ aggOut = NoAgg
    /\ notifications = <<>>
    /\ classes = DefaultClasses
    /\ enrollments = {}

\* exercise.calculate_score(answers)
ApplyScore ==
    /\ IsNone(scoreOut)
    /\ scoreOut' = Some(calculate_score(scoreIn, scoreIn.answers))
    /\ UNCHANGED <<scoreIn, exercises, progress, next_id, now, txn, last, calls, aggVars, classVars>>

NextScore == ApplyScore

SpecScore == InitScore /\ [][NextScore]_vars

\* ------------------------------------------------------------------------
\* Aggregation check: the aggregations applied to progress tables drawn
\* from a bounded set.
\* ------------------------------------------------------------------------
MaxRows == 3

\* the day of the request
Today == 10

\* active enrollments of the class / of the professor's classes; "s3" has
\* no row in any table
AggStudents == <<"s1", "s2", "s3">>

\* (student, exercise) pairs that may have a row, with the row's id
AggSlots == {<<1, "s1", 1>>, <<2, "s1", 2>>, <<3, "s1", 3>>, <<4, "s2", 1>>}

\* what a row can look like: never started; started; started again after a
\* scored submission; completed with full, half, no marks; completed with
\* 89.5 (max_score 89.5, every answer right); completed more than a week ago
AggShapes ==
    {[status |-> "not_started", score |-> None,              day |-> Today],
     [status |-> "in_progress", score |-> None,              day |-> Today],
     [status |-> "in_progress", score |-> Some(RatInt(100)), day |-> Today],
     [status |-> "completed",   score |-> Some(RatInt(100)), day |-> Today],
     [status |-> "completed",   score |-> Some(RatInt(50)),  day |-> Today - 1],
     [status |-> "completed",   score |-> Some(RatInt(0)),   day |-> Today - 2],
     [status |-> "completed",   score |-> Some(Rat(179, 2)), day |-> Today - 3],
     [status |-> "completed",   score |-> Some(RatInt(50)),  day |-> Today - 8]}

\* the progress row of a slot in a shape
AggRow(slot, shape) ==
    [id           |-> slot[1],
     student_id   |-> slot[2],
     exercise_id  |-> slot[3],
     score        |-> shape.score,
     status       |-> shape.status,
     attempts     |-> IF shape.status = "not_started" THEN 0
                      ELSE IF shape.status = "in_progress" /\ ~IsNone(shape.score) THEN 2
                      ELSE 1,
     time_spent   |-> None,
     answers      |-> IF IsNone(shape.score) THEN <<>> ELSE <<OptCorrect>>,
     started_at   |-> IF shape.status = "not_started" THEN None ELSE Some(shape.day),
     completed_at |-> IF IsNone(shape.score) THEN None ELSE Some(shape.day),
     submitted_at |-> IF IsNone(shape.score) THEN None ELSE Some(shape.day),
     updated_at   |-> Some(shape.day)]

\* tables with at most MaxRows rows, one row per slot
AggTables ==
    UNION {{{AggRow(slot, f[slot]) : slot \in slots} : f \in [slots -> AggShapes]} :
              slots \in {S \in SUBSET AggSlots : Cardinality(S) <= MaxRows}}

AggInputs == {[table |-> t, student_ids |-> AggStudents, today |-> Today] : t \in AggTables}

Limits == {1, 5}

InitAgg ==
    /\ exercises = [e \in ExerciseIds |-> IF e = 1 THEN Some(SampleExercise) ELSE None]
    /\ progress = {}
    /\ next_id = 1
    /\ now = 0
    /\ txn = [p \in Procs |-> IdleTxn]
    /\ last = NoCall
    /\ calls = [pr \in Pairs |-> <<>>]
    /\ scoreIn = DefaultScoreIn
    /\ scoreOut = None
    /\ cache = [s \in Students |-> None]
    /\ reply = None
    /\ aggIn \in AggInputs
    /\ aggOut = NoAgg
    /\ notifications = <<>>
    /\ classes = DefaultClasses
    /\ enrollments = {}

\* the aggregation returned val, raised, or (caught) returned a fallback
AggResult(op, student_id, limit, db_ok, raised, val) ==
    [op |-> op, student_id |-> student_id, limit |-> limit, db_ok |-> db_ok,
     raised |-> raised, val |-> val]

AggUnchanged ==
    UNCHANGED <<exercises, progress, next_id, now, txn, last, calls,
                scoreIn, scoreOut, cache, reply, aggIn, classVars>>

\* the students whose figures are asked for
StudentsOf(student_ids) == {student_ids[i] : i \in 1..Len(student_ids)}

\* get_student_analytics(student_id): a failing query is logged and re-raised
StudentAnalytics(student_id, db_ok) ==
    /\ aggOut.op = "none"
    /\ LET val == get_student_analytics(aggIn.table, student_id, aggIn.today)
       IN  aggOut' = IF db_ok
                     THEN AggResult("student_analytics", student_id, 5, db_ok,
                                    val.raised, val)
                     ELSE AggResult("student_analytics", student_id, 5, db_ok,
                                    TRUE, EmptyDict)
    /\ AggUnchanged

\* get_class_analytics(): a failing query is logged and re-raised
ClassAnalytics(db_ok) ==
    /\ aggOut.op = "none"
    /\ aggOut' = IF db_ok
                 THEN AggResult("class_analytics", "s1", 5, db_ok, FALSE,
                                get_class_analytics(aggIn.table))
                 ELSE AggResult("class_analytics", "s1", 5, db_ok, TRUE, EmptyDict)
    /\ AggUnchanged

\* _get_student_overall_stats(student_id): returns {} when a query fails
OverallStats(student_id, db_ok) ==
    /\ aggOut.op = "none"
    /\ aggOut' = AggResult("overall_stats", student_id, 5, db_ok, FALSE,
                           IF db_ok THEN get_student_overall_stats(aggIn.table, student_id)
                           ELSE EmptyDict)
    /\ AggUnchanged

\* _get_platform_statistics(): returns {} when a query fails
PlatformStatistics(db_ok) ==
    /\ aggOut.op = "none"
    /\ aggOut' = AggResult("platform_statistics", "s1", 5, db_ok, FALSE,
                           IF db_ok THEN get_platform_statistics(aggIn.table)
                           ELSE EmptyDict)
    /\ AggUnchanged

\* _get_student_performance_insights(professor_id): returns {} when a query
\* fails
PerformanceInsights(db_ok) ==
    /\ aggOut.op = "none"
    /\ aggOut' = AggResult("performance_insights", "s1", 5, db_ok, FALSE,
                           IF db_ok
                           THEN [performance_distribution |->
                                    performance_distribution(aggIn.table, aggIn.student_ids)]
                           ELSE EmptyDict)
    /\ AggUnchanged

\* _calculate_streak(student_id): returns 0 when the query fails
Streak(student_id, db_ok) ==
    /\ aggOut.op = "none"
    /\ aggOut' = AggResult("streak", student_id, 5, db_ok, FALSE,
                           IF db_ok
                           THEN calculate_streak(aggIn.table, student_id, aggIn.today)
                           ELSE 0)
    /\ AggUnchanged

\* _calculate_longest_streak(student_id): returns 0 when the query fails
LongestStreak(student_id, db_ok) ==
    /\ aggOut.op = "none"
    /\ aggOut' = AggResult("longest_streak", student_id, 5, db_ok, FALSE,
                           IF db_ok
                           THEN calculate_longest_streak(aggIn.table, student_id)
                           ELSE 0)
    /\ AggUnchanged

\* _get_top_performers(student_ids, limit): a failing query raises
TopPerformers(limit, db_ok) ==
    /\ aggOut.op = "none"
    /\ IF db_ok
       THEN \E list \in get_top_performers(aggIn.table, aggIn.student_ids, limit) :
               aggOut' = AggResult("top_performers", "s1", limit, db_ok, FALSE, list)
       ELSE aggOut' = AggResult("top_performers", "s1", limit, db_ok, TRUE, <<>>)
    /\ AggUnchanged

\* _get_struggling_students(student_ids, limit): a failing query raises
StrugglingStudents(limit, db_ok) ==
    /\ aggOut.op = "none"
    /\ IF db_ok
       THEN \E list \in get_struggling_students(aggIn.table, aggIn.student_ids, limit) :
               aggOut' = AggResult("struggling_students", "s1", limit, db_ok, FALSE, list)
       ELSE aggOut' = AggResult("struggling_students", "s1", limit, db_ok, TRUE, <<>>)
    /\ AggUnchanged

\* _get_struggling_students_for_professor(professor_id): returns [] when a
\* query fails
StrugglingForProfessor(db_ok) ==
    /\ aggOut.op = "none"
    /\ aggOut' = AggResult("struggling_for_professor", "s1", 10, db_ok, FALSE,
                           IF db_ok
                           THEN get_struggling_students_for_professor(
                                    aggIn.table, aggIn.student_ids, aggIn.today)
                           ELSE <<>>)
    /\ AggUnchanged

\* _get_performance_trend(student_id): returns [] when the query fails
PerformanceTrend(student_id, db_ok) ==
    /\ aggOut.op = "none"
    /\ IF db_ok
       THEN \E list \in get_performance_trend(aggIn.table, student_id) :
               aggOut' = AggResult("performance_trend", student_id, 10, db_ok, FALSE, list)
       ELSE aggOut' = AggResult("performance_trend", student_id, 10, db_ok, FALSE, <<>>)
    /\ AggUnchanged

NextAgg ==
    \/ \E s \in StudentsOf(aggIn.student_ids), ok \in BOOLEAN : StudentAnalytics(s, ok)
    \/ \E ok \in BOOLEAN : ClassAnalytics(ok)
    \/ \E s \in StudentsOf(aggIn.student_ids), ok \in BOOLEAN : OverallStats(s, ok)
    \/ \E ok \in BOOLEAN : PlatformStatistics(ok)
    \/ \E ok \in BOOLEAN : PerformanceInsights(ok)
    \/ \E s \in StudentsOf(aggIn.student_ids), ok \in BOOLEAN : Streak(s, ok)
    \/ \E s \in StudentsOf(aggIn.student_ids), ok \in BOOLEAN : LongestStreak(s, ok)
    \/ \E limit \in Limits, ok \in BOOLEAN : TopPerformers(limit, ok)
    \/ \E limit \in Limits, ok \in BOOLEAN : StrugglingStudents(limit, ok)
    \/ \E ok \in BOOLEAN : StrugglingForProfessor(ok)
    \/ \E s \in StudentsOf(aggIn.student_ids), ok \in BOOLEAN : PerformanceTrend(s, ok)

SpecAgg == InitAgg /\ [][NextAgg]_vars

\* ------------------------------------------------------------------------
\* Properties of the attempt lifecycle (specification Spec)
\* ------------------------------------------------------------------------
\* the step is the commit of a start call of p that returned
StartReturned(p) == txn[p].pc = "start" /\ txn'[p].pc = "idle" /\ last'.ok

\* the step is the commit of a submit call of p
SubmitReturned(p) == txn[p].pc = "submit" /\ txn'[p].pc = "idle"

Published(exercise_id) ==
    ~IsNone(exercises[exercise_id]) /\ Val(exercises[exercise_id]).is_published

\* C1: a start call that returns for a pair without an Attempt row leaves
\* exactly one row for the pair, with status in_progress, attempts 1 and
\* started_at set.
C1_FirstStartOpensAttempt ==
    [][\A p \in Procs :
          (StartReturned(p)
              /\ PairRows(progress, txn[p].student_id, txn[p].exercise_id) = {})
          => /\ Cardinality(PairRows(progress', txn[p].student_id, txn[p].exercise_id)) = 1
             /\ \A r \in PairRows(progress', txn[p].student_id, txn[p].exercise_id) :
                    /\ r.status = "in_progress"
                    /\ r.attempts = 1
                    /\ ~IsNone(r.started_at)]_vars

\* C2: every start call that returns raises the attempts counter of its
\* pair by exactly 1, counting from 0 for a pair without a row, whatever the
\* status of the row; no step lowers the counter of a row.
C2_StartAddsOneAttempt ==
    [][/\ \A p \in Procs :
            StartReturned(p)
            => LET before == PairRows(progress, txn[p].student_id, txn[p].exercise_id)
                   after  == PairRows(progress', txn[p].student_id, txn[p].exercise_id)
               IN  \A r \in after :
                       IF before = {} THEN r.attempts = 1
                       ELSE \A b \in before : b.id = r.id => r.attempts = b.attempts + 1
       /\ \A b \in progress : \A r \in progress' :
            b.id = r.id => r.attempts >= b.attempts]_vars

\* C3: the progress table never holds two rows for one (student_id,
\* exercise_id), whatever the interleaving of start calls.
C3_OneRowPerPair ==
    \A pr \in Pairs : Cardinality(PairRows(progress, pr[1], pr[2])) <= 1

\* two first starts for one pair ran concurrently: the second INSERT was
\* rejected by the unique constraint and the pair has its row
C3_Witness ==
    \E pr \in Pairs :
        /\ last = Outcome("start", pr[1], pr[2], "IntegrityError")
        /\ Cardinality(PairRows(progress, pr[1], pr[2])) = 1

\* C4: a start call that found its Attempt completed leaves the row
\* in_progress with score and answers as they were; only the commit of a
\* submit call changes the score of a row.
C4_RetryKeepsScore ==
    [][/\ \A p \in Procs :
            (StartReturned(p) /\ txn[p].loaded.status = "completed")
            => \A b \in progress : \A r \in progress' :
                   (b.id = txn[p].loaded.id /\ r.id = b.id)
                   => /\ r.status = "in_progress"
                      /\ r.score = b.score
                      /\ r.answers = b.answers
       /\ \A b \in progress : \A r \in progress' :
            (b.id = r.id /\ r.score # b.score) => \E p \in Procs : SubmitReturned(p)]_vars

\* a retry start has returned: the row is in_progress again and still
\* carries the score of the previous submission
C4_Witness ==
    \E r \in progress :
        /\ last = Outcome("start", r.student_id, r.exercise_id, "")
        /\ r.status = "in_progress"
        /\ r.attempts >= 2
        /\ ~IsNone(r.score)
        /\ r.answers # <<>>

\* the step is a call of the given kind that raised ValueError
Refused(op) == last' # last /\ last'.op = op /\ last'.error = "ValueError"

\* C5: a submit call for a pair without a row, or whose row is neither
\* in_progress nor completed, is never accepted: it raises, and a submit that
\* raises leaves the progress table and every open session as they were.
C5_RefusedSubmitChangesNothing ==
    [][/\ \A p \in Procs :
            (txn[p].pc = "idle" /\ txn'[p].pc = "submit")
            => \E r \in PairRows(progress, txn'[p].student_id, txn'[p].exercise_id) :
                   r.status \in {"in_progress", "completed"}
       /\ Refused("submit") => (progress' = progress /\ txn' = txn)]_vars

\* a submit was refused on a row that exists but was never started
C5_Witness ==
    \E r \in progress :
        /\ last = Outcome("submit", r.student_id, r.exercise_id, "ValueError")
        /\ r.status = "not_started"

\* C6: a submit that returns stores the score of calculate_score for the
\* submitted answers, status completed, submitted_at and completed_at, the
\* submitted answers, and leaves attempts alone; after one start, a submit of
\* [correct, incorrect] on the published sample exercise is not refused and
\* ends with score 50, status completed, attempts 1.
C6_StartThenSubmitScores ==
    \A s \in Students :
        /\ (calls[<<s, 1>>] = <<"start">> /\ Published(1))
           => ~(last.op = "submit" /\ last.student_id = s
                   /\ last.exercise_id = 1 /\ ~last.ok)
        /\ calls[<<s, 1>>] = <<"start", "submit">>
           => \A r \in PairRows(progress, s, 1) :
                  /\ r.status = "completed"
                  /\ r.attempts = 1
                  /\ ~IsNone(r.score)
                  /\ ~IsNone(r.submitted_at)
                  /\ ~IsNone(r.completed_at)
                  /\ r.score = Some(calculate_score(SampleExercise, r.answers))
                  /\ (r.answers = <<OptCorrect, OptWrong>> => r.score = Some(RatInt(50)))

\* C7: a start call on an exercise that does not exist or is not published
\* is never accepted: it raises, and a start that raises this way creates
\* no row and changes no row.
C7_UnpublishedStartRejected ==
    [][/\ \A p \in Procs :
            (txn[p].pc = "idle" /\ txn'[p].pc = "start") => Published(txn'[p].exercise_id)
       /\ Refused("start") => (progress' = progress /\ txn' = txn)]_vars

\* a start was rejected on an exercise unpublished after the student's
\* Attempt had been created
C7_Witness ==
    \E r \in progress :
        /\ last = Outcome("start", r.student_id, r.exercise_id, "ValueError")
        /\ ~Published(r.exercise_id)

\* ------------------------------------------------------------------------
\* Properties of the scoring function (specification SpecScore)
\* ------------------------------------------------------------------------
\* the answer agrees with the solution under the grading rule of the type:
\* the selected option is the correct option; the number is within the
\* tolerance of the expected number, in exact arithmetic; the text equals
\* the expected text up to case and surrounding whitespace
MatchesSolution(type, answer, solution) ==
    IF type = "multiple_choice"
    THEN /\ answer.selected_option.k = "num"
         /\ solution.correct_option.k = "num"
         /\ answer.selected_option.n = solution.correct_option.n
    ELSE IF type = "calculation"
    THEN /\ answer.answer.k = "num"
         /\ solution.answer.k = "num"
         /\ Abs(answer.answer.n - solution.answer.n)
               <= (IF solution.tolerance.k = "num" THEN solution.tolerance.n
                   ELSE DefaultTolerance)
    ELSE /\ answer.answer.k = "str"
         /\ solution.answer.k = "str"
         /\ Lower(Strip(answer.answer.s)) = Lower(Strip(solution.answer.s))

\* one answer per question, and all of them right / all of them wrong
FullyCorrect(in) ==
    /\ Len(in.answers) = Len(in.questions)
    /\ \A i \in 1..Len(in.answers) :
           i <= Len(in.solutions)
               /\ MatchesSolution(in.type, in.answers[i], in.solutions[i])

FullyIncorrect(in) ==
    /\ Len(in.answers) = Len(in.questions)
    /\ \A i \in 1..Len(in.answers) :
           i <= Len(in.solutions)
               => ~MatchesSolution(in.type, in.answers[i], in.solutions[i])

\* C8: for an exercise with N >= 1 questions of any type, N correct answers
\* score exactly max_score and N incorrect answers score exactly 0.
C8_FullMarksAndZero ==
    (~IsNone(scoreOut) /\ Len(scoreIn.questions) >= 1)
    => /\ FullyCorrect(scoreIn) => Val(scoreOut) = RatInt(scoreIn.max_score)
       /\ FullyIncorrect(scoreIn) => Val(scoreOut) = RatInt(0)

\* number of question indices whose submitted answer is right (an essay
\* answer never is)
CorrectCount(in) ==
    Cardinality({i \in 1..Len(in.questions) :
                    /\ i <= Len(in.answers)
                    /\ i <= Len(in.solutions)
                    /\ in.type # "essay"
                    /\ MatchesSolution(in.type, in.answers[i], in.solutions[i])})

\* C9: calculate_score returns (correct_count / total_questions) * max_score,
\* correct_count being the number of question indices with a right answer;
\* unanswered questions count as wrong, answers beyond the questions are
\* ignored, and the score is 0 for an exercise without questions.
C9_ScoreIsCorrectFraction ==
    ~IsNone(scoreOut)
    => Val(scoreOut) =
          (IF Len(scoreIn.questions) = 0 THEN RatInt(0)
           ELSE Rat(CorrectCount(scoreIn) * scoreIn.max_score, Len(scoreIn.questions)))

\* C10: on a calculation question with expected value e and tolerance t
\* (0.01 when the solution has none) a submitted number v is counted right
\* exactly when |v - e| <= t.
C10_WithinToleranceIsRight ==
    (/\ ~IsNone(scoreOut)
     /\ scoreIn.type = "calculation"
     /\ Len(scoreIn.solutions) = 1
     /\ Len(scoreIn.answers) = 1
     /\ scoreIn.answers[1].answer.k = "num")
    => (Val(scoreOut) = RatInt(scoreIn.max_score)
           <=> MatchesSolution("calculation", scoreIn.answers[1], scoreIn.solutions[1]))

\* ------------------------------------------------------------------------
\* Properties of the calls of one client (specification SpecSeq)
\* ------------------------------------------------------------------------
\* C11: a submit of the answers the row already holds, whose stored score is
\* what the exercise as it is now gives those answers, computes that same
\* score again, and its commit leaves the stored score and answers equal to
\* those of the earlier submission.
C11_ResubmitSameScore ==
    [][\A p \in Procs :
          /\ (/\ txn[p].pc = "idle"
              /\ txn'[p].pc = "submit"
              /\ txn'[p].obj.answers = txn'[p].loaded.answers
              /\ txn'[p].loaded.score =
                    Some(calculate_score(Val(exercises[txn'[p].exercise_id]),
                                         txn'[p].loaded.answers)))
             => txn'[p].obj.score = txn'[p].loaded.score
          /\ (/\ SubmitReturned(p)
              /\ txn[p].obj.answers = txn[p].loaded.answers
              /\ txn[p].obj.score = txn[p].loaded.score)
             => \A b \in progress : \A r \in progress' :
                    (b.id = txn[p].loaded.id /\ r.id = b.id)
                    => (r.score = b.score /\ r.answers = b.answers)]_vars

\* a second submission of [correct, incorrect] has been scored on a row
\* completed with these answers and the score 50
C11_Witness ==
    \E p \in Procs :
        /\ txn[p].pc = "submit"
        /\ txn[p].loaded.status = "completed"
        /\ txn[p].loaded.answers = <<OptCorrect, OptWrong>>
        /\ txn[p].obj.answers = txn[p].loaded.answers
        /\ txn[p].loaded.score = Some(RatInt(50))
        /\ txn[p].obj.score = Some(RatInt(50))

\* C12: the score of every Attempt row is null or lies between 0 and the
\* max_score of the row's exercise, whatever exercise updates, starts and
\* submits have run.
C12_ScoreWithinMaxScore ==
    \A r \in progress :
        \/ IsNone(r.score)
        \/ /\ RatLe(RatInt(0), Val(r.score))
           /\ ~IsNone(exercises[r.exercise_id])
           /\ RatLe(Val(r.score), RatInt(Val(exercises[r.exercise_id]).max_score))

\* the step is a student analytics request for student_id
AnalyticsRead(student_id) ==
    /\ reply' # reply \/ cache' # cache
    /\ ~IsNone(reply')
    /\ cache'[student_id] = reply'
    /\ progress' = progress

\* C20: the commit of a start or submit of a student leaves no cached
\* analytics snapshot of that student, and a student analytics request
\* answers with the analytics of the progress table as it is.
C20_MutationInvalidatesSnapshot ==
    [][/\ \A p \in Procs :
            ((StartReturned(p) \/ SubmitReturned(p)) /\ last'.ok)
            => IsNone(cache'[txn[p].student_id])
       /\ \A s \in Students :
            AnalyticsRead(s) => reply' = Some(get_student_analytics(progress, s, now))]_vars

\* ------------------------------------------------------------------------
\* Properties of the aggregations (specification SpecAgg)
\* ------------------------------------------------------------------------
SummaryOps ==
    {"student_analytics", "class_analytics", "overall_stats", "platform_statistics"}

\* the Attempt rows in the scope of the aggregation that ran
ScopeRows ==
    IF aggOut.op \in {"student_analytics", "overall_stats", "streak", "performance_trend"}
    THEN RowsOfStudent(aggIn.table, aggOut.student_id)
    ELSE IF aggOut.op \in {"class_analytics", "platform_statistics"}
    THEN aggIn.table
    ELSE RowsOfStudents(aggIn.table, aggIn.student_ids)

\* the rows that are completed and hold a score
ScoredCompleted(rows) == {r \in rows : r.status = "completed" /\ ~IsNone(r.score)}

\* C13: a student, class or platform summary computed over an empty set of
\* Attempt rows raises nothing and reports completion_rate 0 and
\* average_score 0.
C13_EmptyScopeGivesZeros ==
    (aggOut.op \in SummaryOps /\ aggOut.db_ok /\ ScopeRows = {})
    => /\ ~aggOut.raised
       /\ aggOut.val.completion_rate = RatInt(0)
       /\ aggOut.val.average_score = RatInt(0)

\* the analytics of a student without rows were computed while other
\* students have rows
C13_Witness ==
    /\ aggOut.op = "student_analytics"
    /\ aggOut.db_ok
    /\ aggIn.table # {}
    /\ ScopeRows = {}
    /\ ~aggOut.raised
    /\ aggOut.val.completion_rate = RatInt(0)
    /\ aggOut.val.average_score = RatInt(0)

\* C14: average_score of every summary is the mean (to two decimals) of the
\* scores of the rows in scope that are completed and hold a score, 0 when
\* there is none; a row that holds a score in another status does not count.
\* The same holds of the average reported for a struggling student.
C14_AverageOverScoredCompleted ==
    /\ (aggOut.op \in SummaryOps /\ aggOut.db_ok /\ ~aggOut.raised)
       => aggOut.val.average_score =
             (IF ScoredCompleted(ScopeRows) = {} THEN RatInt(0)
              ELSE Round2(MeanScore(ScoredCompleted(ScopeRows))))
    /\ (aggOut.op = "struggling_students" /\ aggOut.db_ok /\ ~aggOut.raised)
       => \A i \in 1..Len(aggOut.val) :
             LET rows == ScoredCompleted(RowsOfStudent(aggIn.table, aggOut.val[i].student_id))
             IN  aggOut.val[i].average_score =
                    (IF rows = {} THEN RatInt(0) ELSE Round2(MeanScore(rows)))

\* the histogram the buckets <60, 60-69, 70-79, 80-89, 90-100 give with an
\* inclusive lower edge
EdgeBuckets(rows) ==
    LET In(lo, hi) == Cardinality({r \in rows : /\ RatLe(RatInt(lo), Val(r.score))
                                                /\ RatLt(Val(r.score), RatInt(hi))})
    IN  [r90_100  |-> Cardinality({r \in rows : RatLe(RatInt(90), Val(r.score))}),
         r80_89   |-> In(80, 90),
         r70_79   |-> In(70, 80),
         r60_69   |-> In(60, 70),
         below_60 |-> Cardinality({r \in rows : RatLt(Val(r.score), RatInt(60))})]

\* the histogram reported by the aggregation that ran
ReportedBuckets ==
    IF aggOut.op = "class_analytics" THEN aggOut.val.score_distribution
    ELSE aggOut.val.performance_distribution

\* C15: the score histogram counts every completed row with a score in
\* exactly one bucket, the one whose inclusive lower edge is the greatest
\* edge not above the score, also for a score that is not an integer; the
\* counts add up to the number of completed rows with a score.
C15_EveryScoreInOneBucket ==
    (aggOut.op \in {"class_analytics", "performance_insights"} /\ aggOut.db_ok)
    => /\ ReportedBuckets = EdgeBuckets(ScoredCompleted(ScopeRows))
       /\ ReportedBuckets.r90_100 + ReportedBuckets.r80_89 + ReportedBuckets.r70_79
             + ReportedBuckets.r60_69 + ReportedBuckets.below_60
          = Cardinality(ScoredCompleted(ScopeRows))

\* number of days d, d-1, d-2, ... that are all completion dates
RECURSIVE RunFrom(_, _)
RunFrom(dates, d) == IF d \in dates THEN 1 + RunFrom(dates, d - 1) ELSE 0

\* C16: the current streak is the number of completion dates in the run of
\* day-adjacent dates that ends today (or, for a student who has completed
\* nothing today, yesterday); a date more than one day before the last
\* counted one ends the count: {today, yesterday, day-before} gives 3,
\* {today, 3-days-ago} gives 1, no completion gives 0.
C16_StreakCountsAdjacentDays ==
    (aggOut.op = "streak" /\ aggOut.db_ok)
    => LET dates == {Val(r.completed_at) : r \in CompletedRows(ScopeRows)}
       IN  IF aggIn.today \in dates
           THEN aggOut.val = RunFrom(dates, aggIn.today)
           ELSE aggOut.val \in {0, RunFrom(dates, aggIn.today - 1)}

\* the three triggers of struggling-student detection
ShouldBeFlagged(table, student_id, today) ==
    LET mine == RowsOfStudent(table, student_id)
    IN  \/ /\ ScoredCompleted(mine) # {}
           /\ RatLt(MeanScore(ScoredCompleted(mine)), RatInt(60))
        \/ Cardinality(mine) < 3
        \/ ~\E r \in CompletedRows(mine) : Val(r.completed_at) >= today - WeekDays

\* C17: struggling-student detection flags exactly the students of the
\* supplied list whose average completed score is below 60, or who have
\* fewer than 3 Attempt rows (none included), or who have no Attempt
\* completed in the last 7 days (lists cut by the limit aside).
C17_StrugglingIsAnyOfThree ==
    (aggOut.op \in {"struggling_students", "struggling_for_professor"}
        /\ aggOut.db_ok /\ ~aggOut.raised)
    => LET expected == {s \in StudentsOf(aggIn.student_ids) :
                           ShouldBeFlagged(aggIn.table, s, aggIn.today)}
       IN  Cardinality(expected) <= aggOut.limit
           => {aggOut.val[i].student_id : i \in 1..Len(aggOut.val)} = expected

\* position of a student id in the ascending order of ids
IdRank(student_id) == CHOOSE i \in 1..Len(AggStudents) : AggStudents[i] = student_id

\* a ranks before b: higher average, then more completed rows, then lower id
RanksBefore(a, b) ==
    \/ RatLt(Val(b.avg_score), Val(a.avg_score))
    \/ /\ a.avg_score = b.avg_score
       /\ \/ a.count > b.count
          \/ (a.count = b.count /\ IdRank(a.student_id) < IdRank(b.student_id))

\* the ranking of the students who have a completed row with a score
Ranking(table, student_ids) ==
    LET groups == GroupByStudent(ScoredCompleted(RowsOfStudents(table, student_ids)))
        f == CHOOSE g \in Orderings(groups) :
                 \A i, j \in 1..Len(g) : i < j => RanksBefore(g[i], g[j])
    IN  [i \in 1..Len(f) |-> f[i].student_id]

\* C18: the top-performers list is the first `limit` students in the order
\* of average completed score descending, completed count descending,
\* student id ascending; a student with a single completed row appears.
C18_TopPerformersRanked ==
    (aggOut.op = "top_performers" /\ aggOut.db_ok)
    => [i \in 1..Len(aggOut.val) |-> aggOut.val[i].student_id]
          = Take(Ranking(aggIn.table, aggIn.student_ids), aggOut.limit)

\* C19: an aggregation whose read of the progress table failed ends in an
\* error, never in a value.
C19_ReadFailureIsAnError ==
    (aggOut.op # "none" /\ ~aggOut.db_ok) => aggOut.raised


\* ------------------------------------------------------------------------
\* Further properties of the calls of one client (specification SpecSeq)
\* ------------------------------------------------------------------------
\* the completion event of a stored row: an exercise_completed notification
\* for the row's student
CompletionEvent(r) ==
    [user_id |-> r.student_id, type |-> "exercise_completed",
     exercise_id |-> r.exercise_id, score |-> r.score,
     completed_at |-> r.completed_at]

\* the step is a submit call that raised
SubmitFailed == last' # last /\ last'.op = "submit" /\ ~last'.ok

\* C21: the commit of a submit that returns adds exactly one completion
\* event with the student, the exercise, the score and the completion time
\* of the row just stored; a submit that raises adds none.
C21_SubmitEmitsCompletionEvent ==
    [][/\ (SubmitReturned(Client) /\ last'.ok)
            => \E r \in PairRows(progress', last'.student_id, last'.exercise_id) :
                  notifications' = Append(notifications, CompletionEvent(r))
       /\ SubmitFailed => notifications' = notifications]_vars

\* C24: a start that returns for a completed row stores the time of the
\* call in started_at, which is then not earlier than the completed_at of
\* the cycle that ended.
C24_RetryResetsStartedAt ==
    [][(StartReturned(Client) /\ txn[Client].loaded.status = "completed")
        => \A r \in PairRows(progress', txn[Client].student_id, txn[Client].exercise_id) :
              /\ r.started_at = txn[Client].obj.updated_at
              /\ ~IsNone(txn[Client].loaded.completed_at)
              /\ Val(txn[Client].loaded.completed_at) <= Val(r.started_at)]_vars

\* ------------------------------------------------------------------------
\* Properties of exercise definitions and submissions (specification SpecEx)
\* ------------------------------------------------------------------------
\* the step is the service part of a submit call of p, up to its commit
SubmitPrepared(p) == txn[p].pc = "idle" /\ txn'[p].pc = "submit"

\* C22: a submit on an essay exercise leaves the Attempt in status
\* submitted, a submit on an exercise of an auto-graded type leaves it in
\* completed, and the commit stores that status.
C22_EssayStaysSubmitted ==
    [][/\ SubmitPrepared(Client)
            => txn'[Client].obj.status =
                  IF Val(exercises[txn'[Client].exercise_id]).type = "essay"
                  THEN "submitted" ELSE "completed"
       /\ (SubmitReturned(Client) /\ last'.ok)
            => \A r \in PairRows(progress', last'.student_id, last'.exercise_id) :
                  r.status = txn[Client].obj.status]_vars

\* C26: every stored exercise has as many solutions as questions.
C26_SolutionsAlignedWithQuestions ==
    \A e \in ExerciseIds :
        ~IsNone(exercises[e])
        => Len(Val(exercises[e]).solutions) = Len(Val(exercises[e]).questions)

\* time_spent of a row in seconds, 0 when the column is NULL
SecondsSpent(r) == IF IsNone(r.time_spent) THEN 0 ELSE Val(r.time_spent)

\* C28: the time_spent of a row is never negative and no step lowers it.
C28_TimeSpentAccumulates ==
    [][\A r \in progress' :
          /\ SecondsSpent(r) >= 0
          /\ \A q \in progress : q.id = r.id => SecondsSpent(r) >= SecondsSpent(q)]_vars

\* ------------------------------------------------------------------------
\* Further properties of scoring (specification SpecScore)
\* ------------------------------------------------------------------------
\* the answer value of an answer object is absent, null, or a string that
\* float() rejects
Unparseable(v) ==
    \/ v.k \in {"missing", "null"}
    \/ v.k = "str" /\ IsNone(PyFloat(v))

\* C25: on a calculation exercise, answers whose answer value is absent or
\* not parseable as a number are all counted incorrect, whatever the
\* expected values are, so the score is 0.
C25_UnparseableIsIncorrect ==
    (/\ ~IsNone(scoreOut)
     /\ scoreIn.type = "calculation"
     /\ \A i \in 1..Len(scoreIn.answers) : Unparseable(scoreIn.answers[i].answer))
    => Val(scoreOut) = RatInt(0)

\* ------------------------------------------------------------------------
\* Further properties of the aggregations (specification SpecAgg)
\* ------------------------------------------------------------------------
\* the dates on which the student of the request completed an exercise
CompletionDates ==
    {Val(r.completed_at) :
        r \in CompletedRows(RowsOfStudent(aggIn.table, aggOut.student_id))}

SecondRetryCommits(q, r) ==
    /\ StartReturned(q)
    /\ txn[q].loaded.status = "completed"
    /\ r.id = txn[q].loaded.id
    /\ r.status = "in_progress"
    /\ r.attempts = txn[q].loaded.attempts + 1
    /\ last = Outcome("start", r.student_id, r.exercise_id, "")

\* C23: concurrent starts and submits on one pair leave the row as some
\* serial order of them would: when two retry starts ran concurrently the
\* row's attempts end 2 above the value both loaded, and in every stored
\* row the score is the score of the answers stored with it.
C23_ConcurrentCallsSerialize ==
    [][/\ \A q \in Procs : \A r \in progress :
            SecondRetryCommits(q, r)
            => \A w \in progress' : w.id = r.id => w.attempts = txn[q].loaded.attempts + 2
       /\ \A w \in progress' :
            ~IsNone(w.score)
            => w.score = Some(calculate_score(Val(exercises[w.exercise_id]), w.answers))]_vars

\* ------------------------------------------------------------------------
\* Further properties of the attempt lifecycle (specification Spec)
\* ------------------------------------------------------------------------
\* C29: a stored row in status completed has a score, submitted_at and
\* completed_at, and a stored row in status in_progress or completed has
\* attempts >= 1 and started_at set.
C29_StatusImpliesFields ==
    \A r \in progress :
        /\ r.status = "completed"
            => /\ ~IsNone(r.score)
               /\ ~IsNone(r.submitted_at)
               /\ ~IsNone(r.completed_at)
        /\ r.status \in {"in_progress", "completed"}
            => /\ r.attempts >= 1
               /\ ~IsNone(r.started_at)

\* a submit has just committed while another request on the same pair was
\* still open: the row is completed
C29_Witness ==
    \E r \in progress :
        /\ last = Outcome("submit", r.student_id, r.exercise_id, "")
        /\ r.status = "completed"
        /\ \E p \in Procs : /\ txn[p].pc # "idle"
                            /\ txn[p].student_id = r.student_id
                            /\ txn[p].exercise_id = r.exercise_id

\* ------------------------------------------------------------------------
\* Properties of class enrolment (specification SpecEnroll)
\* ------------------------------------------------------------------------
\* C30: a class never has more active enrolments than its max_students,
\* whatever enrol, unenrol and enrol-by-code calls have run.
C30_ActiveWithinCapacity ==
    \A c \in ClassIds :
        active_enrollments(enrollments, c) <= classes[c].max_students

====
